---- MODULE Spec2Model ----
(***************************************************************************)
(* A model of the gisp registry search services:                           *)
(*   - services/api/main.py: build_filter_clauses, the attempt planner and *)
(*     the ranking pipeline of GET /reestr/semantic, and GET /reestr;      *)
(*   - services/semantic/semantic_service.py: semantic_normalize and its   *)
(*     embedding cache.                                                    *)
(* Python strings are sequences of one-character strings; the value None   *)
(* is the one-element sequence <<"None">>, which no string equals.         *)
(***************************************************************************)
EXTENDS Integers, Sequences, FiniteSets, TLC

\* ------------------------------------------------------------------ bounds

\* longest digit string offered as a tnved / code value
MaxDigits == 11
\* longest filter value offered to build_filter_clauses
MaxFilterLen == 3
\* number of rows of the row universe a store may hold
MaxRows == 4

\* ------------------------------------------------------- program constants

\* main.py:349,351  the fetch size is doubled up to this cap
FetchCap == 800
\* main.py:396  tokens shorter than this are discarded
MinTokenLen == 2

\* --------------------------------------------------------- Python strings

None == <<"None">>

DigitChars == {"0", "1", "2", "3", "4", "5", "6", "7", "8", "9"}

\* bool(value) of an optional string
Truthy(v) == v # None /\ v # <<>>

\* value or ""
OrEmpty(v) == IF v = None THEN <<>> ELSE v

\* ch in s
HasChar(s, ch) == \E i \in 1..Len(s) : s[i] = ch

\* p in s (substring test)
IsSubstr(p, s) ==
    \E i \in 0..(Len(s) - Len(p)) : SubSeq(s, i + 1, i + Len(p)) = p

\* s[:n]
Prefix(s, n) == SubSeq(s, 1, IF n < Len(s) THEN n ELSE Len(s))

RECURSIVE LStrip(_)
LStrip(s) == IF s # <<>> /\ Head(s) = " " THEN LStrip(Tail(s)) ELSE s

RECURSIVE RStrip(_)
RStrip(s) ==
    IF s # <<>> /\ s[Len(s)] = " " THEN RStrip(SubSeq(s, 1, Len(s) - 1)) ELSE s

\* s.strip()
Strip(s) == RStrip(LStrip(s))

\* position of the first character of s that is in the set chars, 0 if none
RECURSIVE FirstIn(_, _, _)
FirstIn(s, chars, i) ==
    IF i > Len(s) THEN 0
    ELSE IF s[i] \in chars THEN i
    ELSE FirstIn(s, chars, i + 1)

\* re.split("[chars]", s), and s.split(d) for chars = {d}
RECURSIVE SplitOn(_, _)
SplitOn(s, chars) ==
    LET k == FirstIn(s, chars, 1)
    IN  IF k = 0 THEN <<s>>
        ELSE <<SubSeq(s, 1, k - 1)>> \o SplitOn(SubSeq(s, k + 1, Len(s)), chars)

\* [v.strip() for v in parts if v.strip()]
RECURSIVE StripNonEmpty(_)
StripNonEmpty(parts) ==
    IF parts = <<>> THEN <<>>
    ELSE LET v == Strip(Head(parts))
         IN  (IF v # <<>> THEN <<v>> ELSE <<>>) \o StripNonEmpty(Tail(parts))

\* s.strip('"')
RECURSIVE StripQuotes(_)
StripQuotes(s) ==
    IF s # <<>> /\ Head(s) = "\"" THEN StripQuotes(Tail(s))
    ELSE IF s # <<>> /\ s[Len(s)] = "\"" THEN StripQuotes(SubSeq(s, 1, Len(s) - 1))
    ELSE s

\* main.py:58-64
normalize_regnumber(val) ==
    IF ~Truthy(val) THEN None
    ELSE LET v == Strip(StripQuotes(Strip(val)))
         IN  [i \in 1..Len(v) |-> IF v[i] = "/" THEN "\\" ELSE v[i]]

SplitTermsOnSpace(value) == StripNonEmpty(SplitOn(value, {"$", "^", " "}))

\* main.py:66-69
split_terms(value) == StripNonEmpty(SplitOn(value, {"$", "^"}))

\* f"%{v}%"
Like(v) == <<"%">> \o v \o <<"%">>

\* ---------------------------------------------------- build_filter_clauses

\* A clause is [group, atoms]: group = TRUE is "(" + " OR ".join(atoms) + ")",
\* group = FALSE is the single atom as it stands.
Atom(sql) == [group |-> FALSE, atoms |-> <<sql>>]
OrGroup(sqls) == [group |-> TRUE, atoms |-> sqls]

\* [sql for v in values]
Repeat(sql, values) == [i \in 1..Len(values) |-> sql]

\* params.append(f"%{v}%") for each value
LikeAll(values) == [i \in 1..Len(values) |-> Like(values[i])]

\* params.extend([v, f"%{v}%"]) for each value
EqAndLikeAll(values) ==
    [i \in 1..(2 * Len(values)) |->
        IF i % 2 = 1 THEN values[(i + 1) \div 2] ELSE Like(values[i \div 2])]

NoClauses == [clauses |-> <<>>, params |-> <<>>]

\* main.py:83-90
CodeClauses(code) ==
    IF ~Truthy(code) THEN NoClauses
    ELSE LET code_values == StripNonEmpty(SplitOn(code, {"|"}))
         IN  IF code_values = <<>> THEN NoClauses
             ELSE [clauses |->
                       <<OrGroup(Repeat("(r.inn = %s OR r.tnved ILIKE %s)", code_values))>>,
                   params |-> EqAndLikeAll(code_values)]

\* the mutant of InnClauses that tests for "," before "|"
InnClausesCommaFirst(inn) ==
    IF ~Truthy(inn) THEN NoClauses
    ELSE IF HasChar(inn, ",")
    THEN LET inn_values == StripNonEmpty(SplitOn(inn, {","}))
         IN  [clauses |-> [i \in 1..Len(inn_values) |-> Atom("r.inn = %s")],
              params |-> inn_values]
    ELSE IF HasChar(inn, "|")
    THEN LET inn_values == StripNonEmpty(SplitOn(inn, {"|"}))
         IN  [clauses |-> <<OrGroup(Repeat("r.inn = %s", inn_values))>>,
              params |-> inn_values]
    ELSE [clauses |-> <<Atom("r.inn = %s")>>, params |-> <<inn>>]

\* main.py:92-107
InnClauses(inn) ==
    IF ~Truthy(inn) THEN NoClauses
    ELSE IF HasChar(inn, "|")
    THEN LET inn_values == StripNonEmpty(SplitOn(inn, {"|"}))
         IN  [clauses |-> <<OrGroup(Repeat("r.inn = %s", inn_values))>>,
              params |-> inn_values]
    ELSE IF HasChar(inn, ",")
    THEN LET inn_values == StripNonEmpty(SplitOn(inn, {","}))
         IN  [clauses |-> [i \in 1..Len(inn_values) |-> Atom("r.inn = %s")],
              params |-> inn_values]
    ELSE [clauses |-> <<Atom("r.inn = %s")>>, params |-> <<inn>>]

\* main.py:109-124
TnvedClauses(tnved) ==
    IF ~Truthy(tnved) THEN NoClauses
    ELSE IF HasChar(tnved, "|")
    THEN LET tnved_values == StripNonEmpty(SplitOn(tnved, {"|"}))
         IN  [clauses |-> <<OrGroup(Repeat("r.tnved ILIKE %s", tnved_values))>>,
              params |-> LikeAll(tnved_values)]
    ELSE IF HasChar(tnved, ",")
    THEN LET tnved_values == StripNonEmpty(SplitOn(tnved, {","}))
         IN  [clauses |-> [i \in 1..Len(tnved_values) |-> Atom("r.tnved ILIKE %s")],
              params |-> LikeAll(tnved_values)]
    ELSE [clauses |-> <<Atom("r.tnved ILIKE %s")>>, params |-> <<Like(tnved)>>]

\* main.py:126-128
Okpd2Clauses(okpd2) ==
    IF ~Truthy(okpd2) THEN NoClauses
    ELSE [clauses |-> <<Atom("r.okpd2 ILIKE %s")>>, params |-> <<Like(okpd2)>>]

\* main.py:130-132
RegnumberClauses(regnumber) ==
    IF ~Truthy(regnumber) THEN NoClauses
    ELSE [clauses |-> <<Atom("(r.regnumber = %s OR r.registernumber = %s)")>>,
          params |-> <<regnumber, regnumber>>]

\* main.py:134-146
NameoforgClauses(nameoforg) ==
    IF ~Truthy(nameoforg) THEN NoClauses
    ELSE LET values == split_terms(nameoforg)
         IN  IF HasChar(nameoforg, "^")
             THEN [clauses |-> <<OrGroup(Repeat("r.nameoforg ILIKE %s", values))>>,
                   params |-> LikeAll(values)]
             ELSE [clauses |-> [i \in 1..Len(values) |-> Atom("r.nameoforg ILIKE %s")],
                   params |-> LikeAll(values)]

Join(a, b) == [clauses |-> a.clauses \o b.clauses, params |-> a.params \o b.params]

\* main.py:71-148
build_filter_clauses(inn, tnved, okpd2, regnumber, nameoforg, code) ==
    Join(CodeClauses(code),
    Join(InnClauses(inn),
    Join(TnvedClauses(tnved),
    Join(Okpd2Clauses(okpd2),
    Join(RegnumberClauses(regnumber), NameoforgClauses(nameoforg))))))

\* --------------------------------------------------------- attempt planner

\* main.py:223-224
_is_simple_value(value) ==
    Truthy(value) /\ ~HasChar(value, "|") /\ ~HasChar(value, ",")

\* main.py:226-227  re.sub(r"\D", "", value or "")
_strip_digits(value) == SelectSeq(OrEmpty(value), LAMBDA ch : ch \in DigitChars)

\* main.py:256,263  for length in (10, 8, 6, 4)
PrefixLengths == <<10, 8, 6, 4>>

NoAttempts == [attempts |-> <<>>, attempts_seen |-> {}]

\* the mutant of _add_attempt that records code_value in the tnved slot
AddAttemptCodeAsTnved(st, label, tnved_value, code_value, removed_filters) ==
    LET key == <<OrEmpty(tnved_value), OrEmpty(code_value)>>
    IN  IF key \in st.attempts_seen THEN st
        ELSE [attempts |-> Append(st.attempts,
                                  [label |-> label, tnved |-> code_value,
                                   code |-> code_value,
                                   removed_filters |-> removed_filters]),
              attempts_seen |-> st.attempts_seen \cup {key}]

\* main.py:232-249
_add_attempt(st, label, tnved_value, code_value, removed_filters) ==
    LET key == <<OrEmpty(tnved_value), OrEmpty(code_value)>>
    IN  IF key \in st.attempts_seen THEN st
        ELSE [attempts |-> Append(st.attempts,
                                  [label |-> label, tnved |-> tnved_value,
                                   code |-> code_value,
                                   removed_filters |-> removed_filters]),
              attempts_seen |-> st.attempts_seen \cup {key}]

\* main.py:253
TnvedDigits(tnved) == IF _is_simple_value(tnved) THEN _strip_digits(tnved) ELSE <<>>

\* main.py:261
CodeDigits(code) == IF _is_simple_value(code) THEN _strip_digits(code) ELSE <<>>

\* the mutant of IsAncestorLength that also takes the full length
IsAncestorLengthInclusive(length, original_len) ==
    length <= original_len /\ length >= 4

\* main.py:257
IsAncestorLength(length, original_len) ==
    length < original_len /\ length >= 4

\* main.py:254-259, the loop from position i of PrefixLengths on
RECURSIVE AddTnvedPrefixes(_, _, _, _)
AddTnvedPrefixes(st, tnved_digits, code, i) ==
    IF i > Len(PrefixLengths) THEN st
    ELSE LET length == PrefixLengths[i]
             next == IF IsAncestorLength(length, Len(tnved_digits))
                     THEN _add_attempt(st, "tnved_prefix_" \o ToString(length),
                                       Prefix(tnved_digits, length), code, <<>>)
                     ELSE st
         IN  AddTnvedPrefixes(next, tnved_digits, code, i + 1)

\* main.py:262-267, the loop from position i of PrefixLengths on
RECURSIVE AddCodeAsTnved(_, _, _, _)
AddCodeAsTnved(st, code_digits, code, i) ==
    IF i > Len(PrefixLengths) THEN st
    ELSE LET length == PrefixLengths[i]
             next == IF Len(code_digits) >= length /\ length >= 4
                     THEN _add_attempt(st, "code_as_tnved_" \o ToString(length),
                                       Prefix(code_digits, length), None,
                                       IF Truthy(code) THEN <<"code">> ELSE <<>>)
                     ELSE st
         IN  AddCodeAsTnved(next, code_digits, code, i + 1)

\* main.py:229-270
PlanAttempts(tnved, code) ==
    LET tnved_digits == TnvedDigits(tnved)
        code_digits == CodeDigits(code)
        s0 == _add_attempt(NoAttempts, "original", tnved, code, <<>>)
        s1 == IF tnved_digits # <<>>
              THEN AddTnvedPrefixes(s0, tnved_digits, code, 1) ELSE s0
        s2 == IF tnved_digits = <<>> /\ code_digits # <<>>
              THEN AddCodeAsTnved(s1, code_digits, code, 1) ELSE s1
        s3 == IF tnved_digits # <<>> \/ Truthy(tnved)
              THEN _add_attempt(s2, "tnved_removed", None, code, <<"tnved">>) ELSE s2
    IN  s3.attempts

\* -------------------------------------------------------------- row store

\* The raw tokens the token pattern finds in the lowered query texts.
LetterWords == {"gloves", "latex", "blue", "x", "a4", "mittens"}
DigitWords == {"a4", "12"}

\* The rows registry.reestr joined with registry.semantic_items can hold:
\* productname is the set of words that are substrings of the product name,
\* distance is the vector distance to the query embedding, in hundredths.
RowTable ==
    << [inn |-> <<"7","7","0","1">>, tnved |-> <<"9","9","9","9","0","0","0","0","0","0">>,
        productname |-> {"gloves", "latex"}, distance |-> 30],
       [inn |-> <<"7","7","0","1">>, tnved |-> <<"8","4","7","1","9","0","0","0","0","0">>,
        productname |-> {"gloves", "latex", "blue"}, distance |-> 50],
       [inn |-> <<"7","7","0","2">>, tnved |-> <<"8","4","7","1","3","0","1","0","0","0">>,
        productname |-> {"gloves"}, distance |-> 10],
       [inn |-> <<"7","7","0","2">>, tnved |-> <<"8","4","7","1","3","0","2","0","0","0">>,
        productname |-> {"gloves"}, distance |-> 10],
       [inn |-> <<"8","4","7","1">>, tnved |-> <<"8","4","7","1","3","0","0","0","0","0">>,
        productname |-> {"mittens"}, distance |-> 5],
       [inn |-> <<"7","7","0","3">>, tnved |-> <<"8","4","7","1","3","0","0","0","0","0">>,
        productname |-> {"boots"}, distance |-> 20] >>

RowOf(i) ==
    LET r == RowTable[((i - 1) % Len(RowTable)) + 1]
    IN  [id |-> i, inn |-> r.inn, tnved |-> r.tnved,
         productname |-> r.productname, distance |-> r.distance]

\* the store that holds the first n rows
StoreRows(n) == {RowOf(i) : i \in 1..n}

\* the %s placeholders of an atom
AtomArity(sql) ==
    IF sql \in {"(r.inn = %s OR r.tnved ILIKE %s)",
                "(r.regnumber = %s OR r.registernumber = %s)",
                "(inn = %s OR tnved ILIKE %s)",
                "(regnumber = %s OR registernumber = %s)"} THEN 2 ELSE 1

\* the characters of a word of a product name
WordChars(w) ==
    CASE w = "gloves" -> <<"g", "l", "o", "v", "e", "s">>
      [] w = "latex" -> <<"l", "a", "t", "e", "x">>
      [] w = "blue" -> <<"b", "l", "u", "e">>
      [] w = "mittens" -> <<"m", "i", "t", "t", "e", "n", "s">>
      [] w = "boots" -> <<"b", "o", "o", "t", "s">>
      [] OTHER -> <<>>

\* column ILIKE pattern, for a pattern '%v%' (the values hold no wildcard)
ILike(column, pattern) == IsSubstr(SubSeq(pattern, 2, Len(pattern) - 1), column)

\* an atom on a row, ps its bound parameters; the productname pattern of the
\* semantic endpoint is <<"%", token, "%">>; the rows hold no okpd2, regnumber or nameoforg
AtomHolds(row, sql, ps) ==
    CASE sql = "r.inn = %s" -> row.inn = ps[1]
      [] sql = "r.tnved ILIKE %s" -> ILike(row.tnved, ps[1])
      [] sql = "(r.inn = %s OR r.tnved ILIKE %s)" ->
             row.inn = ps[1] \/ ILike(row.tnved, ps[2])
      [] sql = "lower(r.productname) LIKE %s" -> ps[1][2] \in row.productname
      [] sql = "inn = %s" -> row.inn = ps[1]
      [] sql = "tnved ILIKE %s" -> ILike(row.tnved, ps[1])
      [] sql = "(inn = %s OR tnved ILIKE %s)" ->
             row.inn = ps[1] \/ ILike(row.tnved, ps[2])
      [] sql = "productname ILIKE %s" ->
             \E w \in row.productname : ILike(WordChars(w), ps[1])
      [] OTHER -> FALSE

\* the atoms of a clause from position i on, ps the parameters left
RECURSIVE AnyAtomHolds(_, _, _, _)
AnyAtomHolds(row, atoms, ps, i) ==
    IF i > Len(atoms) THEN FALSE
    ELSE LET n == AtomArity(atoms[i])
         IN  \/ AtomHolds(row, atoms[i], SubSeq(ps, 1, n))
             \/ AnyAtomHolds(row, atoms, SubSeq(ps, n + 1, Len(ps)), i + 1)

RECURSIVE SumArity(_, _)
SumArity(atoms, i) ==
    IF i > Len(atoms) THEN 0 ELSE AtomArity(atoms[i]) + SumArity(atoms, i + 1)

\* WHERE c1 AND c2 AND ... on a row, from clause i on
RECURSIVE WhereHolds(_, _, _, _)
WhereHolds(row, clauses, ps, i) ==
    IF i > Len(clauses) THEN TRUE
    ELSE LET n == SumArity(clauses[i].atoms, 1)
         IN  /\ AnyAtomHolds(row, clauses[i].atoms, SubSeq(ps, 1, n), 1)
             /\ WhereHolds(row, clauses, SubSeq(ps, n + 1, Len(ps)), i + 1)

\* "()" is no SQL expression: the store rejects the statement
ValidSql(clauses) == \A i \in 1..Len(clauses) : Len(clauses[i].atoms) >= 1

\* ORDER BY distance: every order of the rows by ascending distance; the
\* order of rows at the same distance is whatever the store produces
RECURSIVE OrderByDistance(_)
OrderByDistance(rows) ==
    IF rows = {} THEN {<<>>}
    ELSE LET nearest == {r \in rows : \A o \in rows : r.distance <= o.distance}
         IN  UNION {{<<r>> \o rest : rest \in OrderByDistance(rows \ {r})} : r \in nearest}

\* s[off : off + lim]
Slice(s, off, lim) ==
    SubSeq(s, off + 1, IF off + lim < Len(s) THEN off + lim ELSE Len(s))

\* main.py:272-288, 505-517: the results the store can give to
\* SELECT ... WHERE clauses ORDER BY distance LIMIT lim OFFSET off
QueryResults(n, clauses, ps, lim, off) ==
    LET matching == {r \in StoreRows(n) : WhereHolds(r, clauses, ps, 1)}
    IN  {Slice(s, off, lim) : s \in OrderByDistance(matching)}

\* ------------------------------------------- GET /reestr/semantic: scoring

NoToken == "None"

\* main.py:394-400  the tokens: raw tokens of 2 characters or more, first
\* occurrences only, in order
RECURSIVE Tokens(_, _)
Tokens(raw_tokens, seen_tokens) ==
    IF raw_tokens = <<>> THEN <<>>
    ELSE LET tok == Head(raw_tokens)
         IN  IF Len(tok) < MinTokenLen \/ tok \in seen_tokens
             THEN Tokens(Tail(raw_tokens), seen_tokens)
             ELSE <<tok>> \o Tokens(Tail(raw_tokens), seen_tokens \cup {tok})

\* main.py:401-406  the first token with a letter and without a digit
RECURSIVE PrimaryToken(_)
PrimaryToken(raw_tokens) ==
    IF raw_tokens = <<>> THEN NoToken
    ELSE LET tok == Head(raw_tokens)
         IN  IF Len(tok) >= MinTokenLen /\ tok \in LetterWords /\ tok \notin DigitWords
             THEN tok
             ELSE PrimaryToken(Tail(raw_tokens))

SeqToSet(s) == {s[i] : i \in 1..Len(s)}

\* main.py:412-432  the synonym terms: expansions and variants that are no token
SynonymTerms(tokens, reply) ==
    ( SeqToSet(reply.expansions)
      \cup {reply.synonyms[i].variant : i \in 1..Len(reply.synonyms)} )
    \ SeqToSet(tokens)

\* main.py:433-436  the variants of the primary token
PrimarySynonymTerms(primary_token, reply) ==
    IF primary_token = NoToken THEN {}
    ELSE {reply.synonyms[i].variant :
              i \in {j \in 1..Len(reply.synonyms) : reply.synonyms[j].source = primary_token}}

\* main.py:443-466  the row with its token scores
EnrichedRow(row, tokens, primary_token, reply) ==
    LET matches_base == Cardinality({t \in SeqToSet(tokens) : t \in row.productname})
        matches_syn ==
            Cardinality({t \in SynonymTerms(tokens, reply) : t \in row.productname})
        matches == matches_base + matches_syn
        primary_match ==
            IF primary_token # NoToken
            THEN \/ primary_token \in row.productname
                 \/ \E term \in PrimarySynonymTerms(primary_token, reply) :
                        term \in row.productname
            ELSE matches > 0
    IN  [id |-> row.id, inn |-> row.inn, tnved |-> row.tnved,
         productname |-> row.productname, distance |-> row.distance,
         token_matches |-> matches,
         token_matches_original |-> matches_base,
         token_matches_synonyms |-> matches_syn,
         primary_match |-> IF primary_match THEN 1 ELSE 0]

\* main.py:467  rows_by_id[row["id"]] = row, the dict kept in insertion order
DictSet(by_id, row) ==
    IF \E i \in 1..Len(by_id) : by_id[i].id = row.id
    THEN [i \in 1..Len(by_id) |-> IF by_id[i].id = row.id THEN row ELSE by_id[i]]
    ELSE Append(by_id, row)

\* main.py:469-470
RECURSIVE EnrichAll(_, _, _, _, _)
EnrichAll(rows, by_id, tokens, primary_token, reply) ==
    IF rows = <<>> THEN by_id
    ELSE EnrichAll(Tail(rows),
                   DictSet(by_id, EnrichedRow(Head(rows), tokens, primary_token, reply)),
                   tokens, primary_token, reply)

\* the mutant of FilteredRows that keeps every row
FilteredRowsAll(by_id) == by_id

\* main.py:472-476
FilteredRows(by_id) ==
    SelectSeq(by_id, LAMBDA row : row.token_matches > 0 /\ row.primary_match > 0)

\* the mutant of TokenCandidates that keeps every token
TokenCandidatesAll(tokens) == tokens

\* main.py:487-489  the tokens with a letter
TokenCandidates(tokens) == SelectSeq(tokens, LAMBDA tok : tok \in LetterWords)

\* the mutant of MergeFallback that merges the rows already known as well
MergeFallbackKnownToo(fallback_rows, by_id, pool, tokens, primary_token, reply) ==
    LET er == [i \in 1..Len(fallback_rows) |->
                  EnrichedRow(fallback_rows[i], tokens, primary_token, reply)]
    IN  [rows_by_id |-> by_id \o er, candidate_rows |-> pool \o er]

\* main.py:524-529  the fallback rows whose id is new join the dict and the pool
RECURSIVE MergeFallback(_, _, _, _, _, _)
MergeFallback(fallback_rows, by_id, pool, tokens, primary_token, reply) ==
    IF fallback_rows = <<>> THEN [rows_by_id |-> by_id, candidate_rows |-> pool]
    ELSE LET fr == Head(fallback_rows)
         IN  IF \E i \in 1..Len(by_id) : by_id[i].id = fr.id
             THEN MergeFallback(Tail(fallback_rows), by_id, pool,
                                tokens, primary_token, reply)
             ELSE LET er == EnrichedRow(fr, tokens, primary_token, reply)
                  IN  MergeFallback(Tail(fallback_rows), DictSet(by_id, er),
                                    Append(pool, er), tokens, primary_token, reply)

\* the mutant of RankBefore that ranks by distance alone
RankBeforeByDistance(a, b) == a.distance < b.distance

\* main.py:535-538  the key (-token_matches, distance) of a is below that of b
RankBefore(a, b) ==
    \/ a.token_matches > b.token_matches
    \/ a.token_matches = b.token_matches /\ a.distance < b.distance

\* the sorted list with row put after the last element that does not rank after it
InsertRanked(sorted, row) ==
    LET k == Cardinality({i \in 1..Len(sorted) : ~RankBefore(row, sorted[i])})
    IN  SubSeq(sorted, 1, k) \o <<row>> \o SubSeq(sorted, k + 1, Len(sorted))

\* main.py:534-539  list.sort, which is stable
RECURSIVE SortRanked(_, _)
SortRanked(rows, sorted) ==
    IF rows = <<>> THEN sorted
    ELSE SortRanked(Tail(rows), InsertRanked(sorted, Head(rows)))

\* the mutant of FetchLimit that leaves the offset out
FetchLimitTwice(limit, offset) == limit * 2

\* main.py:221
FetchLimit(limit, offset) ==
    IF limit * 2 >= offset + limit THEN limit * 2 ELSE offset + limit

\* ------------------------------------------------ GET /reestr/semantic

VARIABLES
    req,                 \* the query: text, limit, offset and the filter values
    reply,               \* what the semantic service answers for req.text, or how it fails
    nrows,               \* the store holds StoreRows(nrows)
    pc,                  \* where the handler is
    attempts,            \* main.py:229
    idx,                 \* main.py:310, counted from 0
    current_limit,       \* main.py:326
    attempt_history,     \* main.py:290
    final_rows,          \* main.py:291
    used,                \* main.py:292-293  clauses and filter_values
    final_attempt_index, \* main.py:294, counted from 0
    rows_by_id,          \* main.py:441
    candidate_rows,      \* main.py:480-482
    filtered_count,      \* main.py:477, <<>> for None
    fallback_used,       \* main.py:484
    tok_i,               \* position in token_candidates, main.py:500
    response,            \* the HTTP response
    qlog,                \* the statements sent to the store, in order
    run,                 \* 1 for the first run of the query, 2 for its repetition
    prev_response        \* the response of the first run

reqVars == <<req, reply, nrows>>
localVars == <<attempts, idx, current_limit, attempt_history, final_rows, used,
               final_attempt_index, rows_by_id, candidate_rows, filtered_count,
               fallback_used, tok_i>>
semVars == <<reqVars, pc, localVars, response, qlog, run, prev_response>>

\* the semantic service (semantic_service.py) and its cache table
VARIABLES
    cache,               \* the rows of registry.semantic_query_cache
    now,                 \* the clock, in units of time
    ttl,                 \* CACHE_TTL_SECONDS, semantic_service.py:21
    conn,                \* _CACHE_CONN, semantic_service.py:22: "none" or "open"
    served               \* how the request in hand got its answer

cacheVars == <<cache, now, ttl, conn, served>>

VARIABLES
    params_to_send,      \* the chat pipe's filters for GET /reestr
    ordered_lengths,     \* the lengths the running loop of the pipe has still to try
    source,              \* the value the loop cuts: digits_only, code_orig or tnved_orig
    sent                 \* the searches the pipe has sent, each with its outcome

pipeVars == <<params_to_send, ordered_lengths, source, sent>>

\* the threads of the semantic service that use the cache at the same time
VARIABLES
    _CACHE_CONN,         \* the global of semantic_service.py:22: 0 for None, or a connection
    conns,               \* the connections opened so far: "open" or "closed"
    threads              \* each thread: where it is, and its local conn (0 for none)

connVars == <<_CACHE_CONN, conns, threads>>

\* semantic_service.py:21  the default of SEMANTIC_CACHE_TTL_SECONDS
CACHE_TTL_SECONDS == 604800

NotServed ==
    [from |-> "none", age |-> 0, at |-> 0, expired |-> FALSE, read |-> FALSE,
     wrote |-> FALSE]

\* the semantic service at rest, its cache empty
CacheIdle ==
    /\ cache = {}
    /\ now = 0
    /\ ttl = CACHE_TTL_SECONDS
    /\ conn = "none"
    /\ served = NotServed

\* no thread of the semantic service is at the cache
ConnIdle ==
    /\ _CACHE_CONN = 0
    /\ conns = <<>>
    /\ threads = <<>>

\* the chat pipe before a message
PipeIdle ==
    /\ params_to_send = [code |-> None, tnved |-> None, inn |-> None,
                         productname |-> None]
    /\ ordered_lengths = <<>>
    /\ source = <<>>
    /\ sent = <<>>

NoResponse == [status |-> 0]

\* the locals of the handler before it runs and after it returns
LocalsCleared ==
    /\ attempts = <<>>
    /\ idx = 0
    /\ current_limit = 0
    /\ attempt_history = <<>>
    /\ final_rows = <<>>
    /\ used = NoClauses
    /\ final_attempt_index = 0
    /\ rows_by_id = <<>>
    /\ candidate_rows = <<>>
    /\ filtered_count = <<>>
    /\ fallback_used = FALSE
    /\ tok_i = 0

ClearLocals ==
    /\ attempts' = <<>>
    /\ idx' = 0
    /\ current_limit' = 0
    /\ attempt_history' = <<>>
    /\ final_rows' = <<>>
    /\ used' = NoClauses
    /\ final_attempt_index' = 0
    /\ rows_by_id' = <<>>
    /\ candidate_rows' = <<>>
    /\ filtered_count' = <<>>
    /\ fallback_used' = FALSE
    /\ tok_i' = 0

\* digit strings "8", "84", "847", ... of the classification code 8471 30 000 0
BaseDigits == <<"8", "4", "7", "1", "3", "0", "0", "0", "0", "0", "1", "2", "5">>
DigitsOfLen(n) == [i \in 1..n |-> BaseDigits[((i - 1) % Len(BaseDigits)) + 1]]

\* "8471.30..." : the digits with a dot after the fourth
Dotted(n) == SubSeq(DigitsOfLen(n), 1, 4) \o <<".">> \o SubSeq(DigitsOfLen(n), 5, n)

\* the code of the end-to-end example
ExampleTnved == <<"8", "4", "7", "1", "3", "0", "0", "0", "0", "0">>

\* the values offered to the planner
PlanTnvedInputs ==
    {None, <<"a", "b">>}
    \cup {DigitsOfLen(n) : n \in 0..MaxDigits}
    \cup {Dotted(n) : n \in 5..MaxDigits}
    \cup {DigitsOfLen(n) \o <<"|">> \o DigitsOfLen(4) : n \in 4..MaxDigits}
    \cup {DigitsOfLen(n) \o <<",">> \o DigitsOfLen(4) : n \in 4..MaxDigits}
PlanCodeInputs ==
    {None, <<"a", "b">>, DigitsOfLen(6) \o <<"|">> \o DigitsOfLen(4)}
    \cup {DigitsOfLen(n) : n \in 0..MaxDigits}

\* the queries offered to the endpoint
Texts == {<<"gloves">>, <<"gloves", "latex", "blue">>, <<"a4", "12", "x">>,
          <<"blue", "gloves">>}
Pages == {[limit |-> 2, offset |-> 0], [limit |-> 2, offset |-> 3],
          [limit |-> 100, offset |-> 0], [limit |-> 2, offset |-> 900]}
TnvedInputs ==
    {None, ExampleTnved, DigitsOfLen(MaxDigits),
     DigitsOfLen(6) \o <<"|">> \o <<"9", "9", "9", "9">>}
CodeInputs == {None, <<"8", "4", "7", "1">>}
InnInputs == {None, <<"7", "7", "0", "2">>}

Requests ==
    {[text |-> t, limit |-> p.limit, offset |-> p.offset,
      inn |-> i, tnved |-> tn, okpd2 |-> None, regnumber |-> None,
      nameoforg |-> None, code |-> c] :
         t \in Texts, p \in Pages, i \in InnInputs, tn \in TnvedInputs, c \in CodeInputs}

\* what the semantic service can answer for a text: no synonym, or, for a
\* text with "gloves", the pair gloves -> mittens of its dictionary
NoSynonyms == [synonyms |-> <<>>, expansions |-> <<>>]
RepliesFor(text) ==
    {NoSynonyms}
    \cup IF text = <<"gloves">>
         THEN {[synonyms |-> <<[source |-> "gloves", variant |-> "mittens"]>>,
                expansions |-> <<"mittens">>]}
         ELSE {}

Init ==
    /\ req \in Requests
    /\ reply \in RepliesFor(req.text)
    /\ nrows \in 0..MaxRows
    /\ pc = "start"
    /\ LocalsCleared
    /\ response = NoResponse
    /\ qlog = <<>>
    /\ run = 1
    /\ prev_response = NoResponse
    /\ CacheIdle
    /\ PipeIdle
    /\ ConnIdle

\* the mutant of EmbeddingFailures that catches the timeout as any other
\* RequestException
EmbeddingFailuresTimeoutAsUnavailable ==
    [timeout |-> [status |-> 502, detail |-> "Semantic service unavailable"],
     unavailable |-> [status |-> 502, detail |-> "Semantic service unavailable"],
     not_object |-> [status |-> 500,
                     detail |-> "Semantic service returned unexpected payload."],
     no_embedding |-> [status |-> 500,
                       detail |-> "Semantic service did not provide embedding."],
     bad_format |-> [status |-> 500,
                     detail |-> "Semantic service returned embedding in invalid format."]]

\* main.py:169-196  the ways the embedding call fails, and the HTTPException
\* of each
EmbeddingFailures ==
    [timeout |-> [status |-> 504,
                  detail |-> "Semantic service timeout while building embedding."],
     unavailable |-> [status |-> 502, detail |-> "Semantic service unavailable"],
     not_object |-> [status |-> 500,
                     detail |-> "Semantic service returned unexpected payload."],
     no_embedding |-> [status |-> 500,
                       detail |-> "Semantic service did not provide embedding."],
     bad_format |-> [status |-> 500,
                     detail |-> "Semantic service returned embedding in invalid format."]]

\* main.py:216-219  the semantic service answers
FetchEmbedding ==
    /\ pc = "start"
    /\ pc' = "plan"
    /\ UNCHANGED <<reqVars, localVars, response, qlog, run, prev_response>>
    /\ UNCHANGED <<cacheVars, pipeVars, connVars>>

\* main.py:169-196, 579-580  the HTTPException goes to the client
EmbeddingFails ==
    /\ pc = "start"
    /\ \E kind \in DOMAIN EmbeddingFailures :
           /\ reply' = [failure |-> kind]
           /\ response' = EmbeddingFailures[kind]
    /\ pc' = "failed"
    /\ UNCHANGED <<req, nrows, localVars, qlog, run, prev_response>>
    /\ UNCHANGED <<cacheVars, pipeVars, connVars>>

\* main.py:221-270
Plan ==
    /\ pc = "plan"
    /\ attempts' = PlanAttempts(req.tnved, req.code)
    /\ idx' = 0
    /\ current_limit' = FetchLimit(req.limit, req.offset)
    /\ pc' = "attempt"
    /\ UNCHANGED <<reqVars, attempt_history, final_rows, used, final_attempt_index,
                   rows_by_id, candidate_rows, filtered_count, fallback_used, tok_i,
                   response, qlog, run, prev_response>>
    /\ UNCHANGED <<cacheVars, pipeVars, connVars>>

\* main.py:313-320
AttemptClauses(attempt) ==
    build_filter_clauses(req.inn, attempt.tnved, req.okpd2,
                         normalize_regnumber(req.regnumber), req.nameoforg,
                         attempt.code)

\* main.py:352-363
AttemptRecord(i, attempt, rows_candidate, limit_used) ==
    [index |-> i, label |-> attempt.label, tnved |-> attempt.tnved,
     code |-> attempt.code, rows |-> Len(rows_candidate), limit_used |-> limit_used,
     removed_filters |-> attempt.removed_filters]

\* the mutant of AttemptWins that never leaves the attempt loop early
AttemptNeverWins(rows_candidate) == FALSE

\* main.py:365  if rows_candidate: ... break
AttemptWins(rows_candidate) == rows_candidate # <<>>

\* the mutant of MoreAttempts that leaves the last planned attempt out
MoreAttemptsButLast(i, plan) == i + 2 < Len(plan)

\* main.py:310  the for loop has a next attempt after the one at position i
MoreAttempts(i, plan) == i + 1 < Len(plan)

\* main.py:310-374  one statement of the attempt loop, and what follows it
AttemptQuery ==
    /\ pc = "attempt"
    /\ LET attempt == attempts[idx + 1]
           fc == AttemptClauses(attempt)
       IN  /\ ValidSql(fc.clauses)
           /\ \E rows_candidate \in
                  QueryResults(nrows, fc.clauses, fc.params, current_limit, req.offset) :
                /\ qlog' = Append(qlog, [kind |-> "attempt", label |-> attempt.label,
                                         limit |-> current_limit])
                /\ IF rows_candidate = <<>> /\ current_limit < FetchCap
                   THEN /\ current_limit' =
                               IF current_limit * 2 < FetchCap
                               THEN current_limit * 2 ELSE FetchCap
                        /\ UNCHANGED <<pc, idx, attempt_history, final_rows, used,
                                       final_attempt_index>>
                   ELSE /\ attempt_history' =
                               Append(attempt_history,
                                      AttemptRecord(idx, attempt, rows_candidate,
                                                    current_limit))
                        /\ IF AttemptWins(rows_candidate)
                           THEN /\ final_rows' = rows_candidate
                                /\ used' = fc
                                /\ final_attempt_index' = idx
                                /\ pc' = "score"
                                /\ UNCHANGED <<idx, current_limit>>
                           ELSE IF MoreAttempts(idx, attempts)
                           THEN /\ idx' = idx + 1
                                /\ current_limit' = FetchLimit(req.limit, req.offset)
                                /\ UNCHANGED <<pc, final_rows, used, final_attempt_index>>
                           ELSE /\ used' = fc
                                /\ final_rows' = <<>>
                                /\ pc' = "score"
                                /\ UNCHANGED <<idx, current_limit, final_attempt_index>>
    /\ UNCHANGED <<reqVars, attempts, rows_by_id, candidate_rows, filtered_count,
                   fallback_used, tok_i, response, run, prev_response>>
    /\ UNCHANGED <<cacheVars, pipeVars, connVars>>

\* str(e) of what cur.execute raises: a statement cancelled by the server's
\* statement_timeout (the handler sets no deadline of its own), or any other
\* error of the store
StatementTimeout == "canceling statement due to statement timeout"
StoreErrors == {StatementTimeout, "server closed the connection unexpectedly"}

\* main.py:581-583  an exception of the store ends the request with
\* JSONResponse(status_code=500, content={"error": str(e)})
StoreFails ==
    /\ pc \in {"attempt", "lexical"}
    /\ \E e \in StoreErrors : response' = [status |-> 500, error |-> e]
    /\ pc' = "failed"
    /\ ClearLocals
    /\ UNCHANGED <<reqVars, qlog, run, prev_response>>
    /\ UNCHANGED <<cacheVars, pipeVars, connVars>>

\* main.py:376-491  the rows of the chosen attempt are scored and filtered
Score ==
    /\ pc = "score"
    /\ LET tokens == Tokens(req.text, {})
           primary_token == PrimaryToken(req.text)
           by_id == EnrichAll(final_rows, <<>>, tokens, primary_token, reply)
           filtered_rows == FilteredRows(by_id)
           pool == IF filtered_rows # <<>> THEN filtered_rows ELSE by_id
       IN  /\ rows_by_id' = by_id
           /\ filtered_count' =
                  IF filtered_rows # <<>> THEN <<Len(filtered_rows)>> ELSE <<>>
           /\ candidate_rows' = pool
           /\ fallback_used' = FALSE
           /\ IF tokens # <<>> /\ Len(pool) < req.limit /\ TokenCandidates(tokens) # <<>>
              THEN pc' = "lexical" /\ tok_i' = 1
              ELSE pc' = "finish" /\ tok_i' = 0
    /\ UNCHANGED <<reqVars, attempts, idx, current_limit, attempt_history, final_rows,
                   used, final_attempt_index, response, qlog, run, prev_response>>
    /\ UNCHANGED <<cacheVars, pipeVars, connVars>>

\* main.py:500-531  the statement of one token of the lexical fallback
LexicalQuery ==
    /\ pc = "lexical"
    /\ LET tokens == Tokens(req.text, {})
           primary_token == PrimaryToken(req.text)
           token_candidates == TokenCandidates(tokens)
           tok == token_candidates[tok_i]
           remaining == FetchLimit(req.limit, req.offset)
           combined_clauses == used.clauses \o <<Atom("lower(r.productname) LIKE %s")>>
           combined_params == used.params \o <<<<"%", tok, "%">>>>
       IN  /\ ValidSql(combined_clauses)
           /\ \E fallback_rows \in
                  QueryResults(nrows, combined_clauses, combined_params, remaining, 0) :
                LET merged == MergeFallback(fallback_rows, rows_by_id, candidate_rows,
                                            tokens, primary_token, reply)
                    stop == \/ tok_i = Len(token_candidates)
                            \/ /\ fallback_rows # <<>>
                               /\ Len(merged.candidate_rows) >= remaining
                IN  /\ qlog' = Append(qlog, [kind |-> "lexical", label |-> tok,
                                             limit |-> remaining,
                                             clauses |-> combined_clauses,
                                             params |-> combined_params])
                    /\ fallback_used' = (fallback_used \/ fallback_rows # <<>>)
                    /\ rows_by_id' = merged.rows_by_id
                    /\ candidate_rows' = merged.candidate_rows
                    /\ IF stop THEN pc' = "finish" /\ tok_i' = tok_i
                       ELSE pc' = "lexical" /\ tok_i' = tok_i + 1
    /\ UNCHANGED <<reqVars, attempts, idx, current_limit, attempt_history, final_rows,
                   used, final_attempt_index, filtered_count, response, run,
                   prev_response>>
    /\ UNCHANGED <<cacheVars, pipeVars, connVars>>

\* main.py:533-578  the pool is ranked and cut, and the response is built
Finish ==
    /\ pc = "finish"
    /\ LET ranked == SortRanked(candidate_rows, <<>>)
           rows == SubSeq(ranked, 1, IF req.limit < Len(ranked)
                                     THEN req.limit ELSE Len(ranked))
           final_attempt == attempts[final_attempt_index + 1]
       IN  response' =
               [status |-> 200,
                rows |-> rows,
                limit |-> req.limit,
                offset |-> req.offset,
                count |-> Len(rows),
                semantic |->
                    [original_query |-> req.text,
                     synonyms |-> reply.expansions,
                     synonym_pairs |-> reply.synonyms,
                     tokens |-> Tokens(req.text, {}),
                     filtered_count |-> filtered_count,
                     primary_token |-> PrimaryToken(req.text),
                     fallback_attempts |-> attempt_history,
                     fallback_used |-> fallback_used,
                     active_filters |->
                         [inn |-> req.inn, tnved |-> final_attempt.tnved,
                          okpd2 |-> req.okpd2,
                          regnumber |-> normalize_regnumber(req.regnumber),
                          code |-> final_attempt.code],
                     fallback_removed_filters |-> final_attempt.removed_filters]]
    /\ pc' = "done"
    /\ UNCHANGED <<reqVars, localVars, qlog, run, prev_response>>
    /\ UNCHANGED <<cacheVars, pipeVars, connVars>>

Next ==
    \/ FetchEmbedding
    \/ EmbeddingFails
    \/ Plan
    \/ AttemptQuery
    \/ StoreFails
    \/ Score
    \/ LexicalQuery
    \/ Finish

vars == <<semVars, cacheVars, pipeVars, connVars>>

Spec == Init /\ [][Next]_vars

\* ---------------------------------------------- the planner on its own

PlanRequests ==
    {[text |-> <<"gloves">>, limit |-> 2, offset |-> 0,
      inn |-> None, tnved |-> tn, okpd2 |-> None, regnumber |-> None,
      nameoforg |-> None, code |-> c] :
         tn \in PlanTnvedInputs, c \in PlanCodeInputs}

\* the handler has its embedding and is about to plan
InitPlan ==
    /\ req \in PlanRequests
    /\ reply = NoSynonyms
    /\ nrows = 0
    /\ pc = "plan"
    /\ LocalsCleared
    /\ response = NoResponse
    /\ qlog = <<>>
    /\ run = 1
    /\ prev_response = NoResponse
    /\ CacheIdle
    /\ PipeIdle
    /\ ConnIdle

NextPlan == Plan

SpecPlan == InitPlan /\ [][NextPlan]_vars

\* ------------------------------------------- the same query, run twice

\* the client sends the query of a successful response once more
RunAgain ==
    /\ pc = "done"
    /\ run = 1
    /\ prev_response' = response
    /\ run' = 2
    /\ pc' = "start"
    /\ ClearLocals
    /\ response' = NoResponse
    /\ qlog' = <<>>
    /\ UNCHANGED reqVars
    /\ UNCHANGED <<cacheVars, pipeVars, connVars>>

NextRepeat == Next \/ RunAgain

SpecRepeat == Init /\ [][NextRepeat]_vars

\* ------------------------------------- the same query, page after page

\* the offsets of the later pages the client asks for
LaterOffsets == {1, 3}

\* the first page of a query
InitPages == Init /\ req.offset = 0

\* main.py:206  the client sends the query of a successful response once
\* more, with the offset of a later page and nothing else changed
NextPage ==
    /\ pc = "done"
    /\ run = 1
    /\ response.status = 200
    /\ \E off \in LaterOffsets : req' = [req EXCEPT !.offset = off]
    /\ prev_response' = response
    /\ run' = 2
    /\ pc' = "start"
    /\ ClearLocals
    /\ response' = NoResponse
    /\ qlog' = <<>>
    /\ UNCHANGED <<reply, nrows>>
    /\ UNCHANGED <<cacheVars, pipeVars, connVars>>

NextPages == Next \/ NextPage

SpecPages == InitPages /\ [][NextPages]_vars

\* ------------------------------------------- build_filter_clauses on its own

FilterChars == {"1", "2", "|", ",", "^", "$", " "}

\* the strings over FilterChars of length n
RECURSIVE StringsOfLen(_)
StringsOfLen(n) ==
    IF n = 0 THEN {<<>>}
    ELSE {<<ch>> \o s : ch \in FilterChars, s \in StringsOfLen(n - 1)}

FilterValues == {None} \cup UNION {StringsOfLen(n) : n \in 0..MaxFilterLen}

NoFilters ==
    [inn |-> None, tnved |-> None, okpd2 |-> None, regnumber |-> None,
     nameoforg |-> None, code |-> None, productname |-> None]
SimpleFilters ==
    [inn |-> <<"7">>, tnved |-> <<"8">>, okpd2 |-> <<"2", "6">>,
     regnumber |-> <<"5">>, nameoforg |-> <<"o", "o", "o">>, code |-> <<"9">>,
     productname |-> None]

\* one filter takes any value, the others are all absent or all simple
FilterRequests ==
    {[base EXCEPT ![f] = v] :
         base \in {NoFilters, SimpleFilters},
         f \in {"inn", "tnved", "nameoforg", "code", "productname"},
         v \in FilterValues}

InitFilter ==
    /\ req \in FilterRequests
    /\ reply = NoSynonyms
    /\ nrows = 0
    /\ pc = "build"
    /\ LocalsCleared
    /\ response = NoResponse
    /\ qlog = <<>>
    /\ run = 1
    /\ prev_response = NoResponse
    /\ CacheIdle
    /\ PipeIdle
    /\ ConnIdle

\* main.py:71-148  a call of build_filter_clauses
BuildClauses ==
    /\ pc = "build"
    /\ used' = build_filter_clauses(req.inn, req.tnved, req.okpd2, req.regnumber,
                                    req.nameoforg, req.code)
    /\ pc' = "built"
    /\ UNCHANGED <<reqVars, attempts, idx, current_limit, attempt_history, final_rows,
                   final_attempt_index, rows_by_id, candidate_rows, filtered_count,
                   fallback_used, tok_i, response, qlog, run, prev_response>>
    /\ UNCHANGED <<cacheVars, pipeVars, connVars>>


\* ------------------------------------------------------------ GET /reestr

\* main.py:30-35  the defaults of limit and offset
REESTR_DEFAULT_LIMIT == 20
REESTR_DEFAULT_OFFSET == 0

\* main.py:602
Allowed ==
    {"inn", "tnved", "okpd2", "productname", "regnumber", "nameoforg", "limit",
     "offset", "code"}

FilterNames == {"inn", "tnved", "okpd2", "productname", "regnumber", "nameoforg", "code"}

\* names a caller may add to the query string
OtherNames == {"foo", "bar", "Inn"}

\* the parameter names in the order sorted() gives them
NameOrder ==
    <<"Inn", "bar", "code", "foo", "inn", "limit", "nameoforg", "offset", "okpd2",
      "productname", "regnumber", "tnved">>

\* sorted(list(names))
Sorted(names) == SelectSeq(NameOrder, LAMBDA n : n \in names)

\* the mutant of UnknownParams that compares the names without their case
UnknownParamsIgnoringCase(passed) ==
    {n \in passed : (IF n = "Inn" THEN "inn" ELSE n) \notin Allowed}

\* main.py:603-604
UnknownParams(passed) == passed \ Allowed

\* the mutant of filters_provided that counts every parameter that was passed
FiltersProvidedIfPassed(r) == \E n \in FilterNames : r[n] # None

\* main.py:612-614
filters_provided(r) ==
    \/ Truthy(r.inn)
    \/ Truthy(r.tnved)
    \/ Truthy(r.okpd2)
    \/ Truthy(r.productname)
    \/ Truthy(normalize_regnumber(r.regnumber))
    \/ Truthy(r.nameoforg)
    \/ Truthy(r.code)

\* main.py:622-628
PlainCodeClauses(code) ==
    IF ~Truthy(code) THEN NoClauses
    ELSE LET code_values == StripNonEmpty(SplitOn(code, {"|"}))
         IN  [clauses |-> <<OrGroup(Repeat("(inn = %s OR tnved ILIKE %s)", code_values))>>,
              params |-> EqAndLikeAll(code_values)]

\* main.py:631-646
PlainInnClauses(inn) ==
    IF ~Truthy(inn) THEN NoClauses
    ELSE IF HasChar(inn, "|")
    THEN LET inn_values == StripNonEmpty(SplitOn(inn, {"|"}))
         IN  [clauses |-> <<OrGroup(Repeat("inn = %s", inn_values))>>,
              params |-> inn_values]
    ELSE IF HasChar(inn, ",")
    THEN LET inn_values == StripNonEmpty(SplitOn(inn, {","}))
         IN  [clauses |-> [i \in 1..Len(inn_values) |-> Atom("inn = %s")],
              params |-> inn_values]
    ELSE [clauses |-> <<Atom("inn = %s")>>, params |-> <<inn>>]

\* main.py:649-664
PlainTnvedClauses(tnved) ==
    IF ~Truthy(tnved) THEN NoClauses
    ELSE IF HasChar(tnved, "|")
    THEN LET tnved_values == StripNonEmpty(SplitOn(tnved, {"|"}))
         IN  [clauses |-> <<OrGroup(Repeat("tnved ILIKE %s", tnved_values))>>,
              params |-> LikeAll(tnved_values)]
    ELSE IF HasChar(tnved, ",")
    THEN LET tnved_values == StripNonEmpty(SplitOn(tnved, {","}))
         IN  [clauses |-> [i \in 1..Len(tnved_values) |-> Atom("tnved ILIKE %s")],
              params |-> LikeAll(tnved_values)]
    ELSE [clauses |-> <<Atom("tnved ILIKE %s")>>, params |-> <<Like(tnved)>>]

\* main.py:666-668
PlainOkpd2Clauses(okpd2) ==
    IF ~Truthy(okpd2) THEN NoClauses
    ELSE [clauses |-> <<Atom("okpd2 ILIKE %s")>>, params |-> <<Like(okpd2)>>]

\* main.py:670-685 for productname, 691-706 for nameoforg
PlainTermClauses(value, sql) ==
    IF ~Truthy(value) THEN NoClauses
    ELSE LET values == split_terms(value)
         IN  IF HasChar(value, "^")
             THEN [clauses |-> <<OrGroup(Repeat(sql, values))>>,
                   params |-> LikeAll(values)]
             ELSE [clauses |-> [i \in 1..Len(values) |-> Atom(sql)],
                   params |-> LikeAll(values)]

\* main.py:687-689
PlainRegnumberClauses(regnumber) ==
    IF ~Truthy(regnumber) THEN NoClauses
    ELSE [clauses |-> <<Atom("(regnumber = %s OR registernumber = %s)")>>,
          params |-> <<regnumber, regnumber>>]

\* main.py:618-706  what the handler adds to
\* SELECT * FROM registry.reestr WHERE 1=1, each clause after an AND
PlainQueryParts(r) ==
    Join(PlainCodeClauses(r.code),
    Join(PlainInnClauses(r.inn),
    Join(PlainTnvedClauses(r.tnved),
    Join(PlainOkpd2Clauses(r.okpd2),
    Join(PlainTermClauses(r.productname, "productname ILIKE %s"),
    Join(PlainRegnumberClauses(normalize_regnumber(r.regnumber)),
         PlainTermClauses(r.nameoforg, "nameoforg ILIKE %s")))))))

\* main.py:618-709  the statement get_reestr puts together for the same values:
\* the predicates after WHERE 1=1 and the parameters bound to them
BuildPlainQuery ==
    /\ pc = "built"
    /\ qlog' = <<[kind |-> "select",
                  clauses |-> PlainQueryParts(req).clauses,
                  params |-> PlainQueryParts(req).params]>>
    /\ pc' = "built_plain"
    /\ UNCHANGED <<reqVars, localVars, response, run, prev_response>>
    /\ UNCHANGED <<cacheVars, pipeVars, connVars>>

NextFilter == BuildClauses \/ BuildPlainQuery

SpecFilter == InitFilter /\ [][NextFilter]_vars

DigitRank(ch) ==
    CASE ch = "0" -> 0 [] ch = "1" -> 1 [] ch = "2" -> 2 [] ch = "3" -> 3
      [] ch = "4" -> 4 [] ch = "5" -> 5 [] ch = "6" -> 6 [] ch = "7" -> 7
      [] ch = "8" -> 8 [] ch = "9" -> 9

\* a <= b for strings of digits
RECURSIVE DigitsLessEq(_, _)
DigitsLessEq(a, b) ==
    IF a = <<>> THEN TRUE
    ELSE IF b = <<>> THEN FALSE
    ELSE IF Head(a) = Head(b) THEN DigitsLessEq(Tail(a), Tail(b))
    ELSE DigitRank(Head(a)) < DigitRank(Head(b))

\* ORDER BY inn: every order of the rows by ascending inn; the order of rows
\* of the same inn is whatever the store produces
RECURSIVE OrderByInn(_)
OrderByInn(rows) ==
    IF rows = {} THEN {<<>>}
    ELSE LET least == {r \in rows : \A o \in rows : DigitsLessEq(r.inn, o.inn)}
         IN  UNION {{<<r>> \o rest : rest \in OrderByInn(rows \ {r})} : r \in least}

\* a row of registry.reestr
ReestrRow(r) == [id |-> r.id, inn |-> r.inn, tnved |-> r.tnved, productname |-> r.productname]

\* main.py:708-714  the results the store can give to
\* SELECT * FROM registry.reestr WHERE 1=1 AND clauses ORDER BY inn LIMIT lim OFFSET off
PlainResults(n, clauses, ps, lim, off) ==
    LET matching == {ReestrRow(r) : r \in {x \in StoreRows(n) : WhereHolds(x, clauses, ps, 1)}}
    IN  {Slice(s, off, lim) : s \in OrderByInn(matching)}

\* the filter values of the calls
PlainValues ==
    [inn : {None, <<>>, <<"7", "7", "0", "1">>, <<",">>,
            <<"7", "7", "0", "1", "|", "7", "7", "0", "2">>},
     tnved : {None, <<"8", "4", "7", "1">>},
     okpd2 : {None},
     productname : {None, <<"g", "l", "o", "v", "e", "s">>, <<"$">>},
     regnumber : {None, <<"\"", "\"">>, <<" ">>},
     nameoforg : {None, <<>>},
     code : {None, <<>>, <<"8", "4", "7", "1">>, <<"|">>}]

\* main.py:594-598  limit and offset as the handler gets them, passed or left
\* to their defaults: inside the declared ranges, a call outside them never
\* reaches the handler
PlainPages ==
    {[passed |-> {}, limit |-> REESTR_DEFAULT_LIMIT, offset |-> REESTR_DEFAULT_OFFSET],
     [passed |-> {"limit", "offset"}, limit |-> 2, offset |-> 1]}

\* main.py:587-600  the calls: a parameter has a value when its name is in
\* the query string, a limit and an offset always
PlainRequests ==
    {[passed |-> {n \in FilterNames : v[n] # None} \cup other \cup page.passed,
      inn |-> v.inn, tnved |-> v.tnved, okpd2 |-> v.okpd2,
      productname |-> v.productname, regnumber |-> v.regnumber,
      nameoforg |-> v.nameoforg, code |-> v.code,
      limit |-> page.limit, offset |-> page.offset] :
         v \in PlainValues, other \in SUBSET OtherNames, page \in PlainPages}

InitPlain ==
    /\ req \in PlainRequests
    /\ reply = NoSynonyms
    /\ nrows \in {0, MaxRows}
    /\ pc = "plain"
    /\ LocalsCleared
    /\ response = NoResponse
    /\ qlog = <<>>
    /\ run = 1
    /\ prev_response = NoResponse
    /\ CacheIdle
    /\ PipeIdle
    /\ ConnIdle

\* main.py:601-610
PlainRejectUnknown ==
    /\ pc = "plain"
    /\ LET unknown == UnknownParams(req.passed)
       IN  /\ unknown # {}
           /\ response' = [status |-> 400,
                           detail |-> [error |-> "Unknown query parameter(s)",
                                       unknown |-> Sorted(unknown),
                                       allowed |-> Sorted(Allowed)]]
    /\ pc' = "done"
    /\ UNCHANGED <<reqVars, localVars, qlog, run, prev_response>>
    /\ UNCHANGED <<cacheVars, pipeVars, connVars>>

\* main.py:612-616
PlainRejectNoFilters ==
    /\ pc = "plain"
    /\ UnknownParams(req.passed) = {}
    /\ ~filters_provided(req)
    /\ response' = [status |-> 400,
                    detail |-> "At least one filter parameter is required"]
    /\ pc' = "done"
    /\ UNCHANGED <<reqVars, localVars, qlog, run, prev_response>>
    /\ UNCHANGED <<cacheVars, pipeVars, connVars>>

\* main.py:618-709  the statement is put together
PlainBuild ==
    /\ pc = "plain"
    /\ UnknownParams(req.passed) = {}
    /\ filters_provided(req)
    /\ used' = PlainQueryParts(req)
    /\ pc' = "plain_query"
    /\ UNCHANGED <<reqVars, attempts, idx, current_limit, attempt_history, final_rows,
                   final_attempt_index, rows_by_id, candidate_rows, filtered_count,
                   fallback_used, tok_i, response, qlog, run, prev_response>>
    /\ UNCHANGED <<cacheVars, pipeVars, connVars>>

\* main.py:711-730  the store is opened, the statement runs, the rows go out
PlainQuery ==
    /\ pc = "plain_query"
    /\ ValidSql(used.clauses)
    /\ \E rows \in PlainResults(nrows, used.clauses, used.params, req.limit, req.offset) :
           response' = [status |-> 200, rows |-> rows, limit |-> req.limit,
                        offset |-> req.offset, count |-> Len(rows)]
    /\ qlog' = qlog \o <<[kind |-> "connect"],
                         [kind |-> "select", clauses |-> used.clauses,
                          params |-> used.params \o <<req.limit, req.offset>>]>>
    /\ pc' = "done"
    /\ UNCHANGED <<reqVars, localVars, run, prev_response>>
    /\ UNCHANGED <<cacheVars, pipeVars, connVars>>

\* main.py:711-714, 733-735  get_conn() or cur.execute raises
PlainStoreFails ==
    /\ pc = "plain_query"
    /\ qlog' = Append(qlog, [kind |-> "connect"])
    /\ response' = [status |-> 500, error |-> "error"]
    /\ pc' = "done"
    /\ UNCHANGED <<reqVars, localVars, run, prev_response>>
    /\ UNCHANGED <<cacheVars, pipeVars, connVars>>

NextPlain ==
    \/ PlainRejectUnknown
    \/ PlainRejectNoFilters
    \/ PlainBuild
    \/ PlainQuery
    \/ PlainStoreFails

SpecPlain == InitPlain /\ [][NextPlain]_vars

\* ---------------------------------------------- POST /semantic_normalize

\* the requests a run handles, and the last tick of the clock
MaxRequests == 2
MaxClock == 2

\* A text is a sequence of lexemes: words, and the characters between them.
Separators == {" ", "^", ","}

\* model_loader.py  MODEL_NAME
MODEL_NAME == "model"

\* synonyms.json, canonical word -> variants, and its hash
Synonyms == [gloves |-> <<"glove", "mittens">>]
synonyms_version == "sha1(synonyms)"

\* str.lower() of a lexeme
Lower(x) == IF x = "Gloves" THEN "gloves" ELSE x

\* the normal form pymorphy2 gives a word
NormalForm(token) == IF token = "gloves" THEN "glove" ELSE token

\* the stem RussianStemmer gives a word
Stem(token) == IF token = "gloves" THEN "glov" ELSE token

\* semantic_service.py:51-57
normalize_token(token) == NormalForm(token)

\* semantic_service.py:41-48  lookup.get(word), NoToken for None
build_synonym_lookup(word) ==
    IF word \in DOMAIN Synonyms THEN word
    ELSE IF \E c \in DOMAIN Synonyms : word \in SeqToSet(Synonyms[c])
    THEN CHOOSE c \in DOMAIN Synonyms : word \in SeqToSet(Synonyms[c])
    ELSE NoToken

\* a or b
OrElse(a, b) == IF a # NoToken THEN a ELSE b

\* semantic_service.py:60-69  the token, and the replacement text or None
apply_synonym(token, original) ==
    LET normalized_token == Lower(token)
        original_token == Lower(original)
        replacement == OrElse(build_synonym_lookup(normalized_token),
                              build_synonym_lookup(original_token))
    IN  IF replacement # NoToken /\ replacement # normalized_token
        THEN [token |-> replacement, applied |-> <<token, "->", replacement>>]  \* token→replacement
        ELSE [token |-> IF replacement # NoToken THEN normalized_token ELSE token,
              applied |-> None]

\* semantic_service.py:258  TOKEN_RE.findall(text.lower())
RawTokens(text) ==
    SelectSeq([k \in 1..Len(text) |-> Lower(text[k])], LAMBDA x : x \notin Separators)

\* sep.join(words)
RECURSIVE JoinWith(_, _)
JoinWith(sep, words) ==
    IF words = <<>> THEN <<>>
    ELSE IF Len(words) = 1 THEN words
    ELSE <<Head(words)>> \o sep \o JoinWith(sep, Tail(words))

\* semantic_service.py:205-210  first occurrences, in order
RECURSIVE Unique(_, _)
Unique(tokens, seen) ==
    IF tokens = <<>> THEN <<>>
    ELSE IF Head(tokens) \in seen THEN Unique(Tail(tokens), seen)
    ELSE <<Head(tokens)>> \o Unique(Tail(tokens), seen \cup {Head(tokens)})

\* the embedding vector of a text, a number of 0..99 per coordinate
LexemeCode(x) ==
    CASE x = "gloves" -> 11 [] x = "glove" -> 12 [] x = "mittens" -> 13
      [] x = "Gloves" -> 14 [] x = " " -> 1 [] x = "^" -> 2 [] OTHER -> 3

\* semantic_service.py:72-75
get_embedding(text) == [k \in 1..Len(text) |-> LexemeCode(text[k])]

DigitText == <<"0", "1", "2", "3", "4", "5", "6", "7", "8", "9">>

\* a number of 0..99 as JSON text, and back
NumberText(n) == <<DigitText[(n \div 10) + 1], DigitText[(n % 10) + 1]>>
TextNumber(t) == 10 * DigitRank(t[1]) + DigitRank(t[2])

\* semantic_service.py:162  psycopg2.extras.Json(payload): the vector goes as text
JsonDumps(payload) ==
    [k \in DOMAIN payload |->
        IF k = "embedding"
        THEN [j \in 1..Len(payload[k]) |-> NumberText(payload[k][j])]
        ELSE payload[k]]

\* semantic_service.py:130, 144  the payload column read back
JsonLoads(stored) ==
    [k \in DOMAIN stored |->
        IF k = "embedding"
        THEN [j \in 1..Len(stored[k]) |-> TextNumber(stored[k][j])]
        ELSE stored[k]]

\* the mutant of _make_cache_key that leaves the original text out
MakeCacheKeyWithoutOriginal(original, normalized, normalize_mode, apply_synonyms) ==
    [original |-> <<>>, normalized |-> normalized, normalize |-> normalize_mode,
     apply_synonyms |-> apply_synonyms, synonyms_version |-> synonyms_version,
     model |-> MODEL_NAME]

\* semantic_service.py:171-191  the text that is hashed
_make_cache_key(original, normalized, normalize_mode, apply_synonyms) ==
    [original |-> Strip(original), normalized |-> normalized,
     normalize |-> normalize_mode, apply_synonyms |-> apply_synonyms,
     synonyms_version |-> synonyms_version, model |-> MODEL_NAME]

\* semantic_service.py:289-307  the variants of one raw token
RECURSIVE AugmentVariants(_, _, _, _, _)
AugmentVariants(st, raw, canonical, variants, k) ==
    IF k > Len(variants) THEN st
    ELSE LET variant_clean == variants[k]
             variant_lower == Lower(variant_clean)
         IN  IF \/ variant_lower \in {Lower(raw), canonical}
                \/ variant_lower \in st.seen_aug
             THEN AugmentVariants(st, raw, canonical, variants, k + 1)
             ELSE AugmentVariants(
                      [synonym_pairs |->
                           Append(st.synonym_pairs,
                                  [source |-> raw, variant |-> variant_clean,
                                   type |-> "synonym"]),
                       seen_aug |-> st.seen_aug \cup {variant_lower}],
                      raw, canonical, variants, k + 1)

\* semantic_service.py:267-307  the loop over the raw tokens
RECURSIVE Augment(_, _)
Augment(st, raw_tokens) ==
    IF raw_tokens = <<>> THEN st
    ELSE LET raw == Head(raw_tokens)
             normalized_lower == Lower(normalize_token(raw))
             original_lower == Lower(raw)
             canonical == OrElse(build_synonym_lookup(normalized_lower),
                                 build_synonym_lookup(original_lower))
             variants == IF canonical # NoToken THEN Synonyms[canonical] ELSE <<>>
             st1 == IF /\ canonical # NoToken
                       /\ canonical \notin st.seen_aug
                       /\ canonical # original_lower
                    THEN [synonym_pairs |->
                              Append(st.synonym_pairs,
                                     [source |-> raw, variant |-> canonical,
                                      type |-> "canonical"]),
                          seen_aug |-> st.seen_aug \cup {canonical}]
                    ELSE st
         IN  Augment(AugmentVariants(st1, raw, canonical, variants, 1), Tail(raw_tokens))

\* semantic_service.py:260-340  raw mode: the cache key and the response of a miss
RawMode(text, apply_synonyms) ==
    LET raw_tokens == RawTokens(text)
        st == IF apply_synonyms
              THEN Augment([synonym_pairs |-> <<>>, seen_aug |-> {}], raw_tokens)
              ELSE [synonym_pairs |-> <<>>, seen_aug |-> {}]
        augmented_tokens == [k \in 1..Len(st.synonym_pairs) |-> st.synonym_pairs[k].variant]
        embedding_input == IF augmented_tokens # <<>>
                           THEN text \o <<" ">> \o JoinWith(<<" ">>, augmented_tokens)
                           ELSE text
    IN  [cache_key |-> _make_cache_key(text, embedding_input, FALSE, apply_synonyms),
         response |-> [normalized |-> text,
                       embedding |-> get_embedding(embedding_input),
                       synonyms_applied |-> st.synonym_pairs,
                       synonym_expansions |-> augmented_tokens,
                       embedding_augmented |-> augmented_tokens],
         debug |-> [mode |-> "raw", model |-> MODEL_NAME, tokens |-> raw_tokens]]

\* semantic_service.py:342-365, 194-239  strict mode: the cache key and the
\* response of a miss
StrictMode(text, apply_synonyms) ==
    LET raw_tokens == RawTokens(text)
        applied == [k \in 1..Len(raw_tokens) |->
                       apply_synonym(normalize_token(raw_tokens[k]), raw_tokens[k])]
        normalized_tokens == [k \in 1..Len(applied) |-> applied[k].token]
        replacements == SelectSeq([k \in 1..Len(applied) |-> applied[k].applied],
                                  LAMBDA x : x # None)
        normalized_text == JoinWith(<<" ", "^", " ">>, Unique(normalized_tokens, {}))
        embedding_input == IF normalized_text # <<>> THEN normalized_text
                           ELSE JoinWith(<<" ">>, raw_tokens)
    IN  [cache_key |-> _make_cache_key(text, embedding_input, TRUE, apply_synonyms),
         response |-> [normalized |-> normalized_text,
                       embedding |-> get_embedding(embedding_input),
                       synonyms_applied |-> replacements],
         debug |-> [tokens |-> raw_tokens,
                   stems |-> [k \in 1..Len(raw_tokens) |-> Stem(raw_tokens[k])],
                   model |-> MODEL_NAME]]

\* semantic_service.py:254-260  the handler up to the cache lookup
Computation(r) ==
    IF r.normalize THEN StrictMode(Strip(r.text), r.apply_synonyms)
    ELSE RawMode(Strip(r.text), r.apply_synonyms)

\* semantic_service.py:233-239, 334-340  response["debug"] = ... on a deep copy
WithDebug(body, debug_requested, debug) ==
    IF debug_requested
    THEN [k \in DOMAIN body \cup {"debug"} |-> IF k = "debug" THEN debug ELSE body[k]]
    ELSE body

\* semantic_service.py:109-110
_cache_enabled == ttl > 0

\* the mutant of Expired that subtracts the other way round
ExpiredReversed(updated_at, now_utc) == updated_at - now_utc > ttl

\* semantic_service.py:141-143
Expired(updated_at, now_utc) == now_utc - updated_at > ttl

\* SELECT payload, updated_at ... WHERE query_hash = key
CacheRows(key) == {row \in cache : row.query_hash = key}

\* INSERT ... ON CONFLICT (query_hash) DO UPDATE ..., updated_at = now()
Upsert(key, original_text, payload) ==
    (cache \ CacheRows(key)) \cup
        {[query_hash |-> key, original_text |-> original_text,
          payload |-> JsonDumps(payload), updated_at |-> now]}

NormalizeTexts == {<<"gloves">>, <<" ", "gloves">>, <<"mittens">>, <<" ">>}

\* normalize and apply_synonyms: strict, raw, raw with the synonyms added
NormalizeModes == {<<TRUE, FALSE>>, <<FALSE, FALSE>>, <<FALSE, TRUE>>}

\* semantic_service.py:25-29  SemanticRequest
NormalizeRequests ==
    {[text |-> t, debug |-> d, normalize |-> m[1], apply_synonyms |-> m[2]] :
         t \in NormalizeTexts, d \in BOOLEAN, m \in NormalizeModes}

InitCache ==
    /\ req = [text |-> <<>>, debug |-> FALSE, normalize |-> TRUE,
              apply_synonyms |-> FALSE]
    /\ reply = NoSynonyms
    /\ nrows = 0
    /\ pc = "idle"
    /\ LocalsCleared
    /\ response = NoResponse
    /\ qlog = <<>>
    /\ run = 0
    /\ prev_response = NoResponse
    /\ cache = {}
    /\ now = 0
    /\ ttl \in {-1, 0, 1}
    /\ conn = "none"
    /\ served = NotServed
    /\ PipeIdle
    /\ ConnIdle

semRest == <<reply, nrows, localVars, qlog, pipeVars, connVars>>

\* time passes between two requests
Tick ==
    /\ pc = "idle"
    /\ now < MaxClock
    /\ now' = now + 1
    /\ UNCHANGED <<semVars, pipeVars, connVars, cache, ttl, conn, served>>

\* a request arrives
Receive ==
    /\ pc = "idle"
    /\ run < MaxRequests
    /\ req' \in NormalizeRequests
    /\ run' = run + 1
    /\ prev_response' = response
    /\ response' = NoResponse
    /\ served' = NotServed
    /\ pc' = "normalize"
    /\ UNCHANGED <<semRest, cache, now, ttl, conn>>

\* semantic_service.py:254-256
RejectEmpty ==
    /\ pc = "normalize"
    /\ Strip(req.text) = <<>>
    /\ response' = [status |-> 400, detail |-> "Text must not be empty."]
    /\ pc' = "idle"
    /\ UNCHANGED <<req, semRest, run, prev_response, cacheVars>>

\* semantic_service.py:114-115  _cache_lookup with the cache disabled
LookupDisabled ==
    /\ pc = "normalize"
    /\ Strip(req.text) # <<>>
    /\ ~_cache_enabled
    /\ pc' = "embed"
    /\ UNCHANGED <<req, semRest, response, run, prev_response, cacheVars>>

\* semantic_service.py:116-119  _get_cache_conn raises
LookupCannotConnect ==
    /\ pc = "normalize"
    /\ Strip(req.text) # <<>>
    /\ _cache_enabled
    /\ conn = "none"
    /\ pc' = "embed"
    /\ UNCHANGED <<req, semRest, response, run, prev_response, cacheVars>>

\* semantic_service.py:120-134  the SELECT raises psycopg2.Error
LookupFails ==
    /\ pc = "normalize"
    /\ Strip(req.text) # <<>>
    /\ _cache_enabled
    /\ conn' = "none"
    /\ pc' = "embed"
    /\ UNCHANGED <<req, semRest, response, run, prev_response, cache, now, ttl, served>>

\* semantic_service.py:120-143  no row, or a row older than the TTL
LookupMiss ==
    /\ pc = "normalize"
    /\ Strip(req.text) # <<>>
    /\ _cache_enabled
    /\ LET rows == CacheRows(Computation(req).cache_key)
       IN  /\ \A row \in rows : Expired(row.updated_at, now)
           /\ served' = [served EXCEPT !.read = TRUE, !.expired = (rows # {})]
    /\ conn' = "open"
    /\ pc' = "embed"
    /\ UNCHANGED <<req, semRest, response, run, prev_response, cache, now, ttl>>

\* semantic_service.py:120-144, 321-323, 334-341  a row within the TTL is the
\* response
LookupHit ==
    /\ pc = "normalize"
    /\ Strip(req.text) # <<>>
    /\ _cache_enabled
    /\ \E row \in CacheRows(Computation(req).cache_key) :
           /\ ~Expired(row.updated_at, now)
           /\ served' = [served EXCEPT !.from = "hit", !.read = TRUE,
                                       !.age = now - row.updated_at, !.at = now]
           /\ response' = [status |-> 200,
                           body |-> WithDebug(JsonLoads(row.payload), req.debug,
                                              Computation(req).debug)]
    /\ conn' = "open"
    /\ pc' = "idle"
    /\ UNCHANGED <<req, semRest, run, prev_response, cache, now, ttl>>

\* semantic_service.py:324-341  the response of a miss
FreshResponse ==
    [status |-> 200,
     body |-> WithDebug(Computation(req).response, req.debug, Computation(req).debug)]

\* semantic_service.py:148-149  _cache_store with the cache disabled
StoreDisabled ==
    /\ pc = "embed"
    /\ ~_cache_enabled
    /\ response' = FreshResponse
    /\ served' = [served EXCEPT !.from = "fresh", !.at = now]
    /\ pc' = "idle"
    /\ UNCHANGED <<req, semRest, run, prev_response, cache, now, ttl, conn>>

\* semantic_service.py:150-153  _get_cache_conn raises
StoreCannotConnect ==
    /\ pc = "embed"
    /\ _cache_enabled
    /\ conn = "none"
    /\ response' = FreshResponse
    /\ served' = [served EXCEPT !.from = "fresh", !.at = now]
    /\ pc' = "idle"
    /\ UNCHANGED <<req, semRest, run, prev_response, cache, now, ttl, conn>>

\* semantic_service.py:154-168  the INSERT raises psycopg2.Error
StoreInsertFails ==
    /\ pc = "embed"
    /\ _cache_enabled
    /\ conn' = "none"
    /\ response' = FreshResponse
    /\ served' = [served EXCEPT !.from = "fresh", !.at = now]
    /\ pc' = "idle"
    /\ UNCHANGED <<req, semRest, run, prev_response, cache, now, ttl>>

\* semantic_service.py:154-166  the row is written
StoreInsert ==
    /\ pc = "embed"
    /\ _cache_enabled
    /\ cache' = Upsert(Computation(req).cache_key, Strip(req.text),
                       Computation(req).response)
    /\ conn' = "open"
    /\ response' = FreshResponse
    /\ served' = [served EXCEPT !.from = "fresh", !.at = now, !.wrote = TRUE]
    /\ pc' = "idle"
    /\ UNCHANGED <<req, semRest, run, prev_response, now, ttl>>

NextCache ==
    \/ Tick
    \/ Receive
    \/ RejectEmpty
    \/ LookupDisabled
    \/ LookupCannotConnect
    \/ LookupFails
    \/ LookupMiss
    \/ LookupHit
    \/ StoreDisabled
    \/ StoreCannotConnect
    \/ StoreInsertFails
    \/ StoreInsert

SpecCache == InitCache /\ [][NextCache]_vars

\* ------------------------------------------------ the chat pipe, Pipe.pipe
\* (src/services/openwebui/tools/reestr_openwebui.py)

\* a 10-digit TN VED code, a 10-digit INN and a 12-digit INN
TnvedTen == <<"8", "4", "7", "1", "3", "0", "1", "0", "0", "0">>
InnTen == <<"7", "7", "0", "1", "0", "0", "0", "0", "0", "1">>
InnTwelve == <<"7", "7", "0", "1", "0", "0", "0", "0", "0", "0", "0", "2">>

\* reestr_openwebui.py:976-977  "|".join(tnved_candidates) of two candidates
TnvedTwo == <<"8", "4", "7", "1", "|", "8", "4", "7", "2">>

\* reestr_openwebui.py:714-724, 976-994  what _detect_data_type finds in a
\* message: one 10-digit TN VED alone is also the code; one 10-digit INN alone
\* is also the code; otherwise TN VED values of 4, 6, 8 or 10 digits, one or
\* several, with or without an INN; the words left over are the productname.
\* use_semantic (line 1422): the message has text to search for and no
\* regnumber.
PipeRequests ==
    {[use_semantic |-> u, code |-> f.code, tnved |-> f.tnved, inn |-> f.inn,
      productname |-> p] :
         u \in BOOLEAN,
         p \in {None, <<"g", "l", "o", "v", "e", "s">>},
         f \in {[code |-> TnvedTen, tnved |-> TnvedTen, inn |-> None],
                [code |-> InnTen, tnved |-> None, inn |-> InnTen]}
               \cup {[code |-> None, tnved |-> t, inn |-> i] :
                         t \in {None, Prefix(TnvedTen, 4), Prefix(TnvedTen, 6),
                                Prefix(TnvedTen, 8), TnvedTen, TnvedTwo},
                         i \in {None, InnTwelve}}}

\* what a search gives the pipe: rows, no row, or an error (for the semantic
\* search error_sem is set and the rows are []; for GET /reestr
\* requests.get or raise_for_status raises)
Outcomes == {"rows", "empty", "error"}

\* the mutant of GoesOn that never leaves the loop
ContinuesAlways(outcome) == TRUE

\* reestr_openwebui.py:1486-1495, 1680-1691, 1710-1719  if attempt_error:
\* continue / if attempt_rows: ... break: the loop goes on after a search
\* without rows, failed or not
GoesOn(outcome) == outcome # "rows"

\* reestr_openwebui.py:1455-1468  fallback_lengths: the whole length of the
\* digits if it is at least 4, then the lengths of (10, 8, 6, 4) below it;
\* duplicates dropped, order kept
SemanticLengths(original_len) ==
    Unique((IF original_len >= 4 THEN <<original_len>> ELSE <<>>)
           \o SelectSeq(<<10, 8, 6, 4>>,
                        LAMBDA candidate_len :
                            candidate_len < original_len /\ candidate_len >= 4),
           {})

\* reestr_openwebui.py:1443-1451  the value the semantic loop cuts: tnved if
\* the filters have one, else code; a value with "|" or "," gives none
FallbackValue(filters) ==
    IF filters.tnved # None
    THEN (IF _is_simple_value(filters.tnved) THEN filters.tnved ELSE None)
    ELSE IF filters.code # None
    THEN (IF _is_simple_value(filters.code) THEN filters.code ELSE None)
    ELSE None

\* reestr_openwebui.py:1665-1666, 1697-1698  for length in [...]:
\* if len(value) >= length
FittingLengths(lengths, value) ==
    SelectSeq(lengths, LAMBDA length : Len(value) >= length)

\* one search of the pipe as the log keeps it; the semantic search gets the
\* filters without productname (reestr_openwebui.py:1416-1421)
Search(api, loop, filters, outcome) ==
    [api |-> api, loop |-> loop, code |-> filters.code, tnved |-> filters.tnved,
     inn |-> filters.inn,
     productname |-> IF api = "semantic" THEN None ELSE filters.productname,
     outcome |-> outcome]

pipeRest == <<reply, nrows, localVars, response, qlog, run, prev_response, cacheVars,
              connVars>>

InitPipe ==
    /\ req \in PipeRequests
    /\ reply = NoSynonyms
    /\ nrows = 0
    /\ pc = "pipe"
    /\ LocalsCleared
    /\ response = NoResponse
    /\ qlog = <<>>
    /\ run = 1
    /\ prev_response = NoResponse
    /\ CacheIdle
    /\ PipeIdle
    /\ ConnIdle

\* reestr_openwebui.py:968-999  the keys of the dict _detect_data_type
\* returns: those of the values it found, and max_rows and debug_flag, which
\* it sets for every message
DetectedKeys(r) ==
    {k \in {"code", "tnved", "inn", "productname"} : r[k] # None}
        \cup {"max_rows", "debug_flag"}

\* reestr_openwebui.py:1296, 1326-1352, 1416-1422  params of the message:
\* `if not params` answers with the examples; else params_to_send is filled
Prepare ==
    /\ pc = "pipe"
    /\ IF DetectedKeys(req) = {}
       THEN /\ pc' = "help"
            /\ UNCHANGED params_to_send
       ELSE /\ params_to_send' = [code |-> req.code, tnved |-> req.tnved,
                                  inn |-> req.inn, productname |-> req.productname]
            /\ pc' = IF req.use_semantic THEN "semantic" ELSE "rest"
    /\ UNCHANGED <<req, ordered_lengths, source, sent, pipeRest>>

\* reestr_openwebui.py:1431-1468, 1497-1499, 1645-1649  the first semantic
\* search; with rows the pipe answers (the searches for the synonym variants
\* of the text, lines 1515-1565, use the same filters and are left out); with
\* an error or without a usable value it goes to GET /reestr; else the loop
\* over the lengths starts
SemanticSearch ==
    /\ pc = "semantic"
    /\ \E outcome \in Outcomes :
           LET fallback_value == FallbackValue(params_to_send)
               digits_only == _strip_digits(fallback_value)
           IN  /\ sent' = Append(sent, Search("semantic", "first", params_to_send,
                                              outcome))
               /\ IF outcome = "rows"
                  THEN pc' = "done" /\ UNCHANGED <<ordered_lengths, source>>
                  ELSE IF outcome = "error" \/ fallback_value = None
                          \/ digits_only = <<>>
                  THEN pc' = "rest" /\ UNCHANGED <<ordered_lengths, source>>
                  ELSE /\ pc' = "semantic_loop"
                       /\ source' = digits_only
                       /\ ordered_lengths' = SemanticLengths(Len(digits_only))
    /\ UNCHANGED <<req, params_to_send, pipeRest>>

\* reestr_openwebui.py:1469-1495  one turn of the semantic loop: the search
\* with tnved = digits_only[:length] and without code
SemanticRetry ==
    /\ pc = "semantic_loop"
    /\ ordered_lengths # <<>>
    /\ \E outcome \in Outcomes :
           LET shortened == Prefix(source, Head(ordered_lengths))
               fallback_filters ==
                   [params_to_send EXCEPT !.code = None, !.tnved = shortened]
           IN  /\ sent' = Append(sent, Search("semantic", "semantic", fallback_filters,
                                              outcome))
               /\ IF GoesOn(outcome)
                  THEN /\ ordered_lengths' = Tail(ordered_lengths)
                       /\ UNCHANGED pc
                  ELSE /\ ordered_lengths' = <<>>
                       /\ pc' = "done"
    /\ UNCHANGED <<req, params_to_send, source, pipeRest>>

\* reestr_openwebui.py:1469, 1646-1649  the semantic loop is over without
\* rows: the pipe goes to GET /reestr
SemanticLoopOver ==
    /\ pc = "semantic_loop"
    /\ ordered_lengths = <<>>
    /\ pc' = "rest"
    /\ source' = <<>>
    /\ UNCHANGED <<req, params_to_send, ordered_lengths, sent, pipeRest>>

\* reestr_openwebui.py:1693-1698  the TN VED loop of the plain search starts
\* if params_to_send has a tnved
EnterTnvedLoop(params) ==
    IF params.tnved # None
    THEN /\ pc' = "tnved_loop"
         /\ source' = params.tnved
         /\ ordered_lengths' = FittingLengths(<<8, 6, 4>>, params.tnved)
    ELSE /\ pc' = "done"
         /\ source' = <<>>
         /\ ordered_lengths' = <<>>

\* reestr_openwebui.py:1651-1666, 1693-1698  the first GET /reestr: an
\* exception ends the pipe with a message, rows end it with the table;
\* without rows the code loop starts if there is a code, else the TN VED loop
RestSearch ==
    /\ pc = "rest"
    /\ \E outcome \in Outcomes :
           /\ sent' = Append(sent, Search("rest", "first", params_to_send, outcome))
           /\ IF outcome # "empty"
              THEN /\ pc' = "done"
                   /\ UNCHANGED <<params_to_send, ordered_lengths, source>>
              ELSE IF params_to_send.code # None
              THEN /\ pc' = "code_loop"
                   /\ source' = params_to_send.code
                   /\ ordered_lengths' =
                          FittingLengths(<<10, 8, 6, 4>>, params_to_send.code)
                   /\ params_to_send' = [params_to_send EXCEPT !.code = None]
              ELSE /\ EnterTnvedLoop(params_to_send)
                   /\ UNCHANGED params_to_send
    /\ UNCHANGED <<req, pipeRest>>

\* reestr_openwebui.py:1665-1691  one turn of the code loop: GET /reestr with
\* tnved = code_orig[:length]
CodeRetry ==
    /\ pc = "code_loop"
    /\ ordered_lengths # <<>>
    /\ \E outcome \in Outcomes :
           LET tnved_short == Prefix(source, Head(ordered_lengths))
               params == [params_to_send EXCEPT !.tnved = tnved_short]
           IN  /\ params_to_send' = params
               /\ sent' = Append(sent, Search("rest", "code", params, outcome))
               /\ IF GoesOn(outcome)
                  THEN /\ ordered_lengths' = Tail(ordered_lengths)
                       /\ UNCHANGED <<pc, source>>
                  ELSE /\ ordered_lengths' = <<>>
                       /\ source' = <<>>
                       /\ pc' = "done"
    /\ UNCHANGED <<req, pipeRest>>

\* reestr_openwebui.py:1665, 1693-1698  the code loop is over without rows:
\* data is still the empty answer, and params_to_send keeps the last tnved of
\* the loop, which the TN VED loop takes as tnved_orig
CodeLoopOver ==
    /\ pc = "code_loop"
    /\ ordered_lengths = <<>>
    /\ EnterTnvedLoop(params_to_send)
    /\ UNCHANGED <<req, params_to_send, sent, pipeRest>>

\* reestr_openwebui.py:1697-1719  one turn of the TN VED loop: GET /reestr
\* with tnved = tnved_orig[:length]
TnvedRetry ==
    /\ pc = "tnved_loop"
    /\ ordered_lengths # <<>>
    /\ \E outcome \in Outcomes :
           LET tnved_short == Prefix(source, Head(ordered_lengths))
               params == [params_to_send EXCEPT !.tnved = tnved_short]
           IN  /\ params_to_send' = params
               /\ sent' = Append(sent, Search("rest", "tnved", params, outcome))
               /\ IF GoesOn(outcome)
                  THEN /\ ordered_lengths' = Tail(ordered_lengths)
                       /\ UNCHANGED <<pc, source>>
                  ELSE /\ ordered_lengths' = <<>>
                       /\ source' = <<>>
                       /\ pc' = "done"
    /\ UNCHANGED <<req, pipeRest>>

\* reestr_openwebui.py:1720-1747  the TN VED loop is over without rows: the
\* tnved is taken out; if another filter is left one more GET /reestr goes
\* out without it, else the tnved is put back
TnvedLoopOver ==
    /\ pc = "tnved_loop"
    /\ ordered_lengths = <<>>
    /\ LET removed_tnved == params_to_send.tnved
           without == [params_to_send EXCEPT !.tnved = None]
           has_filters == \/ without.inn # None
                          \/ without.productname # None
                          \/ without.code # None
       IN  IF has_filters
           THEN /\ params_to_send' = without
                /\ \E outcome \in Outcomes :
                       sent' = Append(sent, Search("rest", "no_tnved", without, outcome))
           ELSE /\ UNCHANGED <<params_to_send, sent>>
    /\ pc' = "done"
    /\ source' = <<>>
    /\ UNCHANGED <<req, ordered_lengths, pipeRest>>

NextPipe ==
    \/ Prepare
    \/ SemanticSearch
    \/ SemanticRetry
    \/ SemanticLoopOver
    \/ RestSearch
    \/ CodeRetry
    \/ CodeLoopOver
    \/ TnvedRetry
    \/ TnvedLoopOver

SpecPipe == InitPipe /\ [][NextPipe]_vars

\* --------------------- the cache connection under requests handled at once

\* the threads that handle requests at the same time, and the connections
\* the store accepts in a run
MaxThreads == 2
MaxConns == 3

Threads == 1..MaxThreads

connRest == <<semVars, cacheVars, pipeVars>>

\* semantic_service.py:253  semantic_normalize is a plain def: the server runs
\* each request on a thread of its pool, and the threads take turns between
\* the statements below
InitConn ==
    /\ req = [text |-> <<>>, debug |-> FALSE, normalize |-> TRUE,
              apply_synonyms |-> FALSE]
    /\ reply = NoSynonyms
    /\ nrows = 0
    /\ pc = "threads"
    /\ LocalsCleared
    /\ response = NoResponse
    /\ qlog = <<>>
    /\ run = 0
    /\ prev_response = NoResponse
    /\ CacheIdle
    /\ PipeIdle
    /\ _CACHE_CONN = 0
    /\ conns = <<>>
    /\ threads = [t \in Threads |-> [pc |-> "idle", conn |-> 0]]

\* a connection no name refers to any more is closed when it is freed
Collect(cs, global, ths) ==
    [c \in DOMAIN cs |->
        IF c = global \/ \E t \in DOMAIN ths : ths[t].conn = c THEN cs[c] ELSE "closed"]

\* the thread t goes to the statement at, with conn as its local connection
Moved(t, at, local) == [threads EXCEPT ![t] = [pc |-> at, conn |-> local]]

\* semantic_service.py:113-117, 147-151  _cache_lookup or _cache_store is
\* called with the cache enabled and calls _get_cache_conn
EnterCache(t) ==
    /\ threads[t].pc = "idle"
    /\ _cache_enabled
    /\ threads' = Moved(t, "check", 0)
    /\ UNCHANGED <<_CACHE_CONN, conns, connRest>>

\* semantic_service.py:85  if _CACHE_CONN and _CACHE_CONN.closed == 0
CheckConn(t) ==
    /\ threads[t].pc = "check"
    /\ IF _CACHE_CONN # 0 /\ conns[_CACHE_CONN] = "open"
       THEN threads' = Moved(t, "return", 0)
       ELSE threads' = Moved(t, "connect", 0)
    /\ UNCHANGED <<_CACHE_CONN, conns, connRest>>

\* semantic_service.py:86  return _CACHE_CONN, read once more: it is the
\* connection of this moment, or None, and then conn.cursor() raises an
\* AttributeError no handler of the cache catches
ReturnConn(t) ==
    /\ threads[t].pc = "return"
    /\ IF _CACHE_CONN # 0
       THEN threads' = Moved(t, "execute", _CACHE_CONN)
       ELSE threads' = Moved(t, "done", 0)
    /\ UNCHANGED <<_CACHE_CONN, conns, connRest>>

\* semantic_service.py:87-94  conn = psycopg2.connect(...)
Connect(t) ==
    /\ threads[t].pc = "connect"
    /\ Len(conns) < MaxConns
    /\ conns' = Append(conns, "open")
    /\ threads' = Moved(t, "assign", Len(conns) + 1)
    /\ UNCHANGED <<_CACHE_CONN, connRest>>

\* semantic_service.py:116-119, 150-153  psycopg2.connect raises: return None
ConnectFails(t) ==
    /\ threads[t].pc = "connect"
    /\ threads' = Moved(t, "done", 0)
    /\ UNCHANGED <<_CACHE_CONN, conns, connRest>>

\* semantic_service.py:95-96  _CACHE_CONN = conn; return conn
AssignConn(t) ==
    /\ threads[t].pc = "assign"
    /\ _CACHE_CONN' = threads[t].conn
    /\ threads' = Moved(t, "execute", threads[t].conn)
    /\ conns' = Collect(conns, _CACHE_CONN', threads')
    /\ UNCHANGED connRest

\* semantic_service.py:120-130, 154-166  the statement runs on conn
Execute(t) ==
    /\ threads[t].pc = "execute"
    /\ conns[threads[t].conn] = "open"
    /\ threads' = Moved(t, "done", threads[t].conn)
    /\ UNCHANGED <<_CACHE_CONN, conns, connRest>>

\* semantic_service.py:131-133, 167-168  psycopg2.Error: the store fails, or
\* conn has been closed meanwhile; _reset_cache_conn is called
ExecuteFails(t) ==
    /\ threads[t].pc = "execute"
    /\ threads' = Moved(t, "reset", threads[t].conn)
    /\ UNCHANGED <<_CACHE_CONN, conns, connRest>>

\* semantic_service.py:101-105  if _CACHE_CONN: _CACHE_CONN.close()
ResetClose(t) ==
    /\ threads[t].pc = "reset"
    /\ conns' = IF _CACHE_CONN # 0
                THEN [conns EXCEPT ![_CACHE_CONN] = "closed"]
                ELSE conns
    /\ threads' = Moved(t, "clear", threads[t].conn)
    /\ UNCHANGED <<_CACHE_CONN, connRest>>

\* semantic_service.py:106  _CACHE_CONN = None
ResetClear(t) ==
    /\ threads[t].pc = "clear"
    /\ _CACHE_CONN' = 0
    /\ threads' = Moved(t, "done", threads[t].conn)
    /\ conns' = Collect(conns, _CACHE_CONN', threads')
    /\ UNCHANGED connRest

\* semantic_service.py:134-144, 168  the function returns and its local conn
\* is gone; the thread is free for the next call
LeaveCache(t) ==
    /\ threads[t].pc = "done"
    /\ threads' = Moved(t, "idle", 0)
    /\ conns' = Collect(conns, _CACHE_CONN, threads')
    /\ UNCHANGED <<_CACHE_CONN, connRest>>

NextConn ==
    \/ \E t \in Threads : EnterCache(t)
    \/ \E t \in Threads : CheckConn(t)
    \/ \E t \in Threads : ReturnConn(t)
    \/ \E t \in Threads : Connect(t)
    \/ \E t \in Threads : ConnectFails(t)
    \/ \E t \in Threads : AssignConn(t)
    \/ \E t \in Threads : Execute(t)
    \/ \E t \in Threads : ExecuteFails(t)
    \/ \E t \in Threads : ResetClose(t)
    \/ \E t \in Threads : ResetClear(t)
    \/ \E t \in Threads : LeaveCache(t)

SpecConn == InitConn /\ [][NextConn]_vars

\* ------------------------------------------------------------ properties

Done == pc = "done"

\* the store has a row for the attempt beyond the offset of the query
HasRows(attempt) ==
    LET fc == AttemptClauses(attempt)
    IN  Cardinality({r \in StoreRows(nrows) : WhereHolds(r, fc.clauses, fc.params, 1)})
            > req.offset

\* the planned attempts the store has rows for, by position
Winners == {j \in 1..Len(attempts) : HasRows(attempts[j])}

\* the labels of the attempt statements sent to the store, repetitions dropped
RECURSIVE Labels(_, _)
Labels(log, last) ==
    IF log = <<>> THEN <<>>
    ELSE IF Head(log).kind # "attempt" \/ Head(log).label = last
    THEN Labels(Tail(log), last)
    ELSE <<Head(log).label>> \o Labels(Tail(log), Head(log).label)

\* C1: in a successful semantic response the attempt history is a prefix of
\* the planned attempts, in planned order; every record before the last has
\* rows = 0; the history ends at the first planned attempt the store has rows
\* for (the winner, whose record is the last one) or, when there is none,
\* covers the whole plan; and the store was sent statements for the attempts
\* of the history only, in that order.
C1_FirstSuccessWins ==
    Done =>
        LET history == response.semantic.fallback_attempts
            n == Len(history)
        IN  /\ n >= 1 /\ n <= Len(attempts)
            /\ \A i \in 1..n :
                   /\ history[i].index = i - 1
                   /\ history[i].label = attempts[i].label
                   /\ history[i].tnved = attempts[i].tnved
                   /\ history[i].code = attempts[i].code
            /\ \A i \in 1..(n - 1) : history[i].rows = 0
            /\ IF Winners # {}
               THEN /\ history[n].rows > 0
                    /\ \A j \in Winners : n <= j
                    /\ n \in Winners
               ELSE n = Len(attempts) /\ history[n].rows = 0
            /\ Labels(qlog, "") = [i \in 1..n |-> history[i].label]

\* C1 witness: tnved = 8471300000 has rows at the prefix 847130 only, and the
\* response ends its history with the winning attempt tnved_prefix_6
C1_Witness ==
    /\ Done
    /\ req.tnved = ExampleTnved
    /\ LET history == response.semantic.fallback_attempts
       IN  /\ Len(history) = 3
           /\ history[3].label = "tnved_prefix_6"
           /\ history[3].rows > 0
           /\ history[1].rows = 0 /\ history[2].rows = 0

\* the number of digits of a value
DigitCount(value) ==
    Cardinality({i \in 1..Len(OrEmpty(value)) : OrEmpty(value)[i] \in DigitChars})

\* the digits of a value, in order
DigitsOf(value) == SelectSeq(OrEmpty(value), LAMBDA ch : ch \in DigitChars)

\* the lengths of {10, 8, 6, 4} that are >= 4 and below n, in descending order
AncestorLengths(n) == SelectSeq(<<10, 8, 6, 4>>, LAMBDA len : len >= 4 /\ len < n)

PrefixLabels == {"tnved_prefix_10", "tnved_prefix_8", "tnved_prefix_6", "tnved_prefix_4"}

\* right after the original attempt come the attempts tnved_prefix_N for the
\* ancestor lengths N of tnved, in descending order, each with the first N
\* digits and the code of the query, and no other tnved_prefix attempt follows
AncestorPrefixesPlanned ==
    LET lens == AncestorLengths(DigitCount(req.tnved))
    IN  /\ Len(attempts) >= 1 + Len(lens)
        /\ attempts[1].label = "original"
        /\ \A k \in 1..Len(lens) :
               /\ attempts[1 + k].label = "tnved_prefix_" \o ToString(lens[k])
               /\ attempts[1 + k].tnved = Prefix(DigitsOf(req.tnved), lens[k])
               /\ attempts[1 + k].code = req.code
        /\ \A i \in 1..Len(attempts) :
               attempts[i].label \in PrefixLabels => i \in 2..(1 + Len(lens))

Planned == pc = "attempt" /\ idx = 0 /\ qlog = <<>>

\* C2 as stated: for any tnved value with at least 5 digits the planner adds
\* the ancestor-prefix attempts
C2_AnyValue ==
    (Planned /\ DigitCount(req.tnved) >= 5) => AncestorPrefixesPlanned

\* C2 as amended: for any tnved value with at least 5 digits that is a single
\* value (it holds neither "|" nor ","), the planner adds, after the original
\* attempt, the attempts tnved_prefix_N for exactly the N of {10, 8, 6, 4}
\* that are >= 4 and below the digit count, in descending order, each with the
\* first N digits as tnved and the same code
C2_SingleValue ==
    ( /\ Planned
      /\ DigitCount(req.tnved) >= 5
      /\ ~HasChar(req.tnved, "|") /\ ~HasChar(req.tnved, ",") )
    => AncestorPrefixesPlanned

\* C2 witness: a single value of more than 10 digits got all four prefixes
C2_Witness ==
    /\ Planned
    /\ DigitCount(req.tnved) > 10
    /\ ~HasChar(req.tnved, "|") /\ ~HasChar(req.tnved, ",")
    /\ Len(attempts) >= 5
    /\ attempts[2].label = "tnved_prefix_10"
    /\ attempts[5].label = "tnved_prefix_4"

\* the (classification, code) pair of an attempt, None taken as ""
PairOf(attempt) == <<OrEmpty(attempt.tnved), OrEmpty(attempt.code)>>

\* C3: no two planned attempts have the same (tnved, code) pair, an absent
\* value counting as an empty one, and the first attempt is the original
C3_NoRepeatedPair ==
    Planned =>
        /\ \A i, j \in 1..Len(attempts) : i < j => PairOf(attempts[i]) # PairOf(attempts[j])
        /\ attempts[1].label = "original"

\* C3 witness: a plan of six attempts, all of different pairs
C3_Witness ==
    /\ Planned
    /\ Len(attempts) = 6
    /\ Truthy(req.code)

\* C4: a successful semantic response has at most limit rows, count is their
\* number, and the rows are in descending order of token_matches and, among
\* equal token_matches, in ascending order of distance
C4_RankedAndBounded ==
    Done =>
        /\ Len(response.rows) <= req.limit
        /\ response.count = Len(response.rows)
        /\ \A i, j \in 1..Len(response.rows) :
               i < j =>
                   \/ response.rows[i].token_matches > response.rows[j].token_matches
                   \/ /\ response.rows[i].token_matches = response.rows[j].token_matches
                      /\ response.rows[i].distance <= response.rows[j].distance

\* C4 witness: a row with token_matches = 3 and distance 0.50 is returned
\* before a row with token_matches = 1 and distance 0.10
C4_Witness ==
    /\ Done
    /\ \E i, j \in 1..Len(response.rows) :
           /\ i < j
           /\ response.rows[i].token_matches = 3 /\ response.rows[i].distance = 50
           /\ response.rows[j].token_matches = 1 /\ response.rows[j].distance = 10

\* C4 witness of the cut: the pool was larger than limit
C4_WitnessCut == Done /\ Len(candidate_rows) > req.limit /\ Len(response.rows) = req.limit

\* C10: the second run of a query, on the same store and with the same answer
\* of the semantic service, gives the response of the first run (the model
\* leaves the elapsed times out of the responses)
C10_SameResponseTwice ==
    (run = 2 /\ Done) => response = prev_response

\* the clauses build_filter_clauses returned for inn, and their parameters:
\* they stand after those of code and before those of the other filters
InnPart ==
    LET before == CodeClauses(req.code)
        after == Join(TnvedClauses(req.tnved),
                 Join(Okpd2Clauses(req.okpd2),
                 Join(RegnumberClauses(req.regnumber), NameoforgClauses(req.nameoforg))))
    IN  [clauses |-> SubSeq(used.clauses, Len(before.clauses) + 1,
                            Len(used.clauses) - Len(after.clauses)),
         params |-> SubSeq(used.params, Len(before.params) + 1,
                           Len(used.params) - Len(after.params))]

\* the alternatives of a value: its pieces between the delimiter d, trimmed,
\* the empty ones left out
Alternatives(value, d) == StripNonEmpty(SplitOn(value, {d}))

IsOrOfInnTests(clause, n) ==
    /\ clause.group
    /\ Len(clause.atoms) = n
    /\ \A i \in 1..n : clause.atoms[i] = "r.inn = %s"

IsInnTest(clause) == ~clause.group /\ clause.atoms = <<"r.inn = %s">>

Built == pc = "built"

\* C5: for an inn with "|" build_filter_clauses gives one clause, the OR of
\* one equality test per alternative, and binds the alternatives in input
\* order; for an inn with "," and no "|" it gives one equality clause per
\* element, in input order; for any other inn one equality clause bound to the
\* value; an absent or empty inn gives no clause. So no value is both an
\* OR-group and an AND-group.
C5_InnOrAndSingle ==
    Built =>
        LET inn == req.inn
            part == InnPart
        IN  IF ~Truthy(inn) THEN part = NoClauses
            ELSE IF HasChar(inn, "|")
            THEN /\ Len(part.clauses) = 1
                 /\ IsOrOfInnTests(part.clauses[1], Len(Alternatives(inn, "|")))
                 /\ part.params = Alternatives(inn, "|")
            ELSE IF HasChar(inn, ",")
            THEN /\ Len(part.clauses) = Len(Alternatives(inn, ","))
                 /\ \A i \in 1..Len(part.clauses) : IsInnTest(part.clauses[i])
                 /\ part.params = Alternatives(inn, ",")
            ELSE /\ Len(part.clauses) = 1
                 /\ IsInnTest(part.clauses[1])
                 /\ part.params = <<inn>>

\* C5 witness: inn = "1|2" gave the one clause (r.inn = %s OR r.inn = %s)
\* bound to 1 and 2, among the clauses of other filters
C5_WitnessOr ==
    /\ Built
    /\ req.inn = <<"1", "|", "2">>
    /\ Truthy(req.code)
    /\ InnPart = [clauses |-> <<OrGroup(<<"r.inn = %s", "r.inn = %s">>)>>,
                  params |-> <<<<"1">>, <<"2">>>>]

\* C5 witness: inn = "1,2" gave the two clauses r.inn = %s bound to 1 and 2
C5_WitnessAnd ==
    /\ Built
    /\ req.inn = <<"1", ",", "2">>
    /\ InnPart = [clauses |-> <<Atom("r.inn = %s"), Atom("r.inn = %s")>>,
                  params |-> <<<<"1">>, <<"2">>>>]

\* none of the seven filters carries a value
NoFilterValue == \A n \in FilterNames : ~Truthy(req[n])

\* C6: a call of GET /reestr in which none of inn, tnved, okpd2, productname,
\* regnumber, nameoforg, code carries a value never reaches the store (no
\* connection, no statement) and is answered with status 400.
C6_NoFiltersRejected ==
    NoFilterValue =>
        /\ qlog = <<>>
        /\ pc # "plain_query"
        /\ pc = "done" => response.status = 400

\* C6 witness: a call with inn= (empty) and only known names was answered
\* 400 for its lack of filters, the store holding rows and left alone
C6_Witness ==
    /\ pc = "done"
    /\ NoFilterValue
    /\ "inn" \in req.passed
    /\ req.passed \subseteq Allowed
    /\ nrows > 0
    /\ response = [status |-> 400,
                   detail |-> "At least one filter parameter is required"]
    /\ qlog = <<>>

\* C7: a call of GET /reestr with a parameter name outside the allow-list
\* never reaches the store and is answered with status 400 and a detail that
\* lists the names outside the allow-list, each once and no other, whatever
\* filters come with it.
C7_UnknownRejected ==
    LET unrecognized == {n \in req.passed :
                           n \notin {"inn", "tnved", "okpd2", "productname", "regnumber",
                                     "nameoforg", "limit", "offset", "code"}}
    IN  unrecognized # {} =>
            /\ qlog = <<>>
            /\ pc # "plain_query"
            /\ pc = "done" =>
                   /\ response.status = 400
                   /\ SeqToSet(response.detail.unknown) = unrecognized
                   /\ Len(response.detail.unknown) = Cardinality(unrecognized)

\* C7 witness: a call with a valid inn and tnved and the names foo and Inn was
\* answered 400 with the list Inn, foo
C7_Witness ==
    /\ pc = "done"
    /\ Truthy(req.inn)
    /\ Truthy(req.tnved)
    /\ req.passed \ Allowed = {"foo", "Inn"}
    /\ nrows > 0
    /\ response.status = 400
    /\ response.detail.unknown = <<"Inn", "foo">>
    /\ qlog = <<>>

\* the three fields of a response body that the cache has to keep
ThreeFields(body) == <<body.normalized, body.embedding, body.synonyms_applied>>

\* C8: a response of semantic_normalize that was produced from a cache hit
\* has the normalized, embedding and synonyms_applied fields that the
\* computation of a miss gives for the same request, whatever requests came
\* before it, with or without the debug flag.
C8_HitEqualsFresh ==
    (pc = "idle" /\ served.from = "hit") =>
        /\ response.status = 200
        /\ ThreeFields(response.body) = ThreeFields(FreshResponse.body)

\* C8 witness: the second request, " gloves" without debug, was answered from
\* the row the first request wrote, whose response carried the debug field
C8_Witness ==
    /\ pc = "idle"
    /\ run = 2
    /\ served.from = "hit"
    /\ req.text = <<" ", "gloves">>
    /\ req.normalize
    /\ ~req.debug
    /\ prev_response.status = 200
    /\ "debug" \in DOMAIN prev_response.body
    /\ "debug" \notin DOMAIN response.body
    /\ response.body.synonyms_applied = <<<<"glove", "->", "gloves">>>>

\* the rows of the cache under the key of the request in hand
RowsOfRequest == CacheRows(Computation(req).cache_key)

\* no row older than the TTL is served, and with a TTL that is not positive
\* the cache is neither read nor written
NoStaleRowServed ==
    /\ served.from = "hit" => served.age <= ttl
    /\ ttl <= 0 =>
           /\ cache = {}
           /\ conn = "none"
           /\ ~served.read
           /\ ~served.wrote
           /\ served.from # "hit"

\* C9 as stated: no row older than the TTL is served; a lookup that finds
\* only such a row is a miss, the response is computed afresh and the row is
\* rewritten with the time of that computation; with a TTL that is not
\* positive the cache is neither read nor written.
C9_StaleRowRewritten ==
    /\ NoStaleRowServed
    /\ (pc = "idle" /\ served.expired) =>
           /\ served.from = "fresh"
           /\ response = FreshResponse
           /\ RowsOfRequest # {}
           /\ \A row \in RowsOfRequest : row.updated_at = served.at

\* C9, amended: no row older than the TTL is served; a lookup that finds only
\* such a row is a miss and the response is computed afresh; the row is
\* rewritten with the time of that computation when the write succeeds, and
\* when the write fails the old row stays as it was, still too old to be served;
\* with a TTL that is not positive the cache is neither read nor written.
C9_StaleRowNeverServed ==
    /\ NoStaleRowServed
    /\ (pc = "idle" /\ served.expired) =>
           /\ served.from = "fresh"
           /\ response = FreshResponse
           /\ RowsOfRequest # {}
           /\ served.wrote =>
                  \A row \in RowsOfRequest :
                      row.updated_at = served.at /\ JsonLoads(row.payload) = Computation(req).response
           /\ ~served.wrote =>
                  \A row \in RowsOfRequest : served.at - row.updated_at > ttl

\* C9 witness: with a TTL of 1 a row written at time 0 was found at time 2,
\* not served, and rewritten at time 2
C9_Witness ==
    /\ pc = "idle"
    /\ ttl = 1
    /\ served.expired
    /\ served.wrote
    /\ served.from = "fresh"
    /\ served.at = 2
    /\ \E row \in RowsOfRequest : row.updated_at = 2

\* a row of age 1, the TTL, was served
C9_WitnessServed ==
    /\ pc = "idle"
    /\ ttl = 1
    /\ served.from = "hit"
    /\ served.age = 1

\* the embedding call of the request failed
EmbeddingFailed == pc = "failed" /\ "failure" \in DOMAIN reply

\* C11: when the embedding call times out, is unavailable, answers with
\* something that is no object or with no list-valued embedding, the request
\* ends with an error response whose status tells the timeout (504), the
\* unavailability (502) and the malformed or missing embedding (500) apart,
\* no statement was sent to the store and the response carries no rows.
C11_EmbeddingFailureTyped ==
    EmbeddingFailed =>
        /\ qlog = <<>>
        /\ LocalsCleared
        /\ "rows" \notin DOMAIN response
        /\ response.status = 504 <=> reply.failure = "timeout"
        /\ response.status = 502 <=> reply.failure = "unavailable"
        /\ response.status = 500 <=>
               reply.failure \in {"not_object", "no_embedding", "bad_format"}

\* C11 witness: the embedding call timed out for a request with filters on a
\* store with rows, and the answer is the 504
C11_Witness ==
    /\ EmbeddingFailed
    /\ reply.failure = "timeout"
    /\ Truthy(req.tnved)
    /\ nrows > 0
    /\ response.status = 504
    /\ qlog = <<>>

\* C12: a store query of the lexical-fallback loop that fails does not end
\* the request: the handler goes on with the next token or finishes with a
\* successful response.
C12_LexicalFailureSkipped == [][pc = "lexical" => pc' # "failed"]_vars

\* C13: when no planned attempt and no lexical-fallback query returned a
\* row, the response is a successful one with rows = [] and count = 0, and
\* fallback_attempts holds one record with rows = 0 for every planned attempt,
\* in planned order.
C13_EmptyResultIsSuccess ==
    (pc = "done" /\ final_rows = <<>> /\ ~fallback_used) =>
        LET plan == PlanAttempts(req.tnved, req.code)
            records == response.semantic.fallback_attempts
        IN  /\ response.status = 200
            /\ response.rows = <<>>
            /\ response.count = 0
            /\ Len(records) = Len(plan)
            /\ \A i \in 1..Len(plan) :
                   /\ records[i].label = plan[i].label
                   /\ records[i].index = i - 1
                   /\ records[i].rows = 0

\* C13 witness: on a store with rows, four planned attempts and the lexical
\* query for the token all came back empty, and the answer is the empty 200
C13_Witness ==
    /\ pc = "done"
    /\ nrows > 0
    /\ final_rows = <<>>
    /\ ~fallback_used
    /\ Len(attempts) >= 4
    /\ \E i \in 1..Len(qlog) : qlog[i].kind = "lexical"
    /\ response.status = 200
    /\ response.count = 0
    /\ Len(response.semantic.fallback_attempts) = Len(attempts)


\* the terms a value has once it is split on every delimiter of its field and
\* the pieces are trimmed: none for a value made of delimiters and blanks
UsableTerms(value) ==
    IF ~Truthy(value) THEN <<>>
    ELSE StripNonEmpty(SplitOn(value, {"|", ",", "^", "$"}))

\* C14: build_filter_clauses emits no empty clause, and when none of code, inn,
\* tnved and nameoforg has a usable term (and okpd2 and regnumber are absent)
\* it returns no clause and no parameter.
C14_NoEmptyClause ==
    Built =>
        /\ \A i \in 1..Len(used.clauses) : used.clauses[i].atoms # <<>>
        /\ ( /\ \A f \in {"code", "inn", "tnved", "nameoforg"} : UsableTerms(req[f]) = <<>>
             /\ ~Truthy(req.okpd2)
             /\ ~Truthy(req.regnumber) )
           => used = NoClauses

\* the clauses and parameters the nameoforg value added in build_filter_clauses
NameoforgPart ==
    LET before == Join(CodeClauses(req.code),
                  Join(InnClauses(req.inn),
                  Join(TnvedClauses(req.tnved),
                  Join(Okpd2Clauses(req.okpd2), RegnumberClauses(req.regnumber)))))
    IN  [clauses |-> SubSeq(used.clauses, Len(before.clauses) + 1, Len(used.clauses)),
         params |-> SubSeq(used.params, Len(before.params) + 1, Len(used.params))]

PlainBuilt == pc = "built_plain"

\* the predicates and parameters the nameoforg value added to the statement of
\* GET /reestr
PlainNameoforgPart ==
    LET before == Join(PlainCodeClauses(req.code),
                  Join(PlainInnClauses(req.inn),
                  Join(PlainTnvedClauses(req.tnved),
                  Join(PlainOkpd2Clauses(req.okpd2),
                  Join(PlainTermClauses(req.productname, "productname ILIKE %s"),
                       PlainRegnumberClauses(normalize_regnumber(req.regnumber)))))))
    IN  [clauses |-> SubSeq(qlog[1].clauses, Len(before.clauses) + 1,
                            Len(qlog[1].clauses)),
         params |-> SubSeq(qlog[1].params, Len(before.params) + 1,
                           Len(qlog[1].params))]

\* the predicates and parameters the productname value added to the statement
\* of GET /reestr
PlainProductnamePart ==
    LET before == Join(PlainCodeClauses(req.code),
                  Join(PlainInnClauses(req.inn),
                  Join(PlainTnvedClauses(req.tnved), PlainOkpd2Clauses(req.okpd2))))
        after == Join(PlainRegnumberClauses(normalize_regnumber(req.regnumber)),
                      PlainTermClauses(req.nameoforg, "nameoforg ILIKE %s"))
    IN  [clauses |-> SubSeq(qlog[1].clauses, Len(before.clauses) + 1,
                            Len(qlog[1].clauses) - Len(after.clauses)),
         params |-> SubSeq(qlog[1].params, Len(before.params) + 1,
                           Len(qlog[1].params) - Len(after.params))]

\* a free-text value whose terms are OR-combined in one clause when it holds
\* "^", and otherwise are the pieces between the delimiters of and_delims,
\* trimmed, the empty ones left out, each its own clause; one %term%
\* parameter per term in input order
TermsCombined(part, value, sql, and_delims) ==
    IF ~Truthy(value) THEN part = NoClauses
    ELSE IF HasChar(value, "^")
    THEN LET terms == StripNonEmpty(SplitOn(value, {"^", "$"}))
         IN  /\ Len(part.clauses) = 1
             /\ part.clauses[1].group
             /\ part.clauses[1].atoms = [i \in 1..Len(terms) |-> sql]
             /\ part.params = [i \in 1..Len(terms) |-> <<"%">> \o terms[i] \o <<"%">>]
    ELSE LET terms == StripNonEmpty(SplitOn(value, and_delims))
         IN  /\ Len(part.clauses) = Len(terms)
             /\ \A i \in 1..Len(terms) :
                    ~part.clauses[i].group /\ part.clauses[i].atoms = <<sql>>
             /\ part.params = [i \in 1..Len(terms) |-> <<"%">> \o terms[i] \o <<"%">>]

\* C15 as stated: without "^" every "$"-delimited or space-delimited term of a
\* nameoforg or productname value is its own AND clause.
C15_TermsSplitOnDollarOrSpace ==
    PlainBuilt =>
        /\ TermsCombined(NameoforgPart, req.nameoforg, "r.nameoforg ILIKE %s", {"$", " "})
        /\ TermsCombined(PlainNameoforgPart, req.nameoforg, "nameoforg ILIKE %s",
                         {"$", " "})
        /\ TermsCombined(PlainProductnamePart, req.productname, "productname ILIKE %s",
                         {"$", " "})

\* C15 (amended): a nameoforg or productname value with "^" gives one clause,
\* the OR of one ILIKE test per term; a value without "^" gives one ILIKE
\* clause per "$"-delimited term, and a space does not end a term; in both
\* cases one %term% parameter per term in input order. This holds of
\* nameoforg in build_filter_clauses and of nameoforg and productname in
\* GET /reestr.
C15_TermsSplitOnDollar ==
    PlainBuilt =>
        /\ TermsCombined(NameoforgPart, req.nameoforg, "r.nameoforg ILIKE %s", {"$"})
        /\ TermsCombined(PlainNameoforgPart, req.nameoforg, "nameoforg ILIKE %s", {"$"})
        /\ TermsCombined(PlainProductnamePart, req.productname, "productname ILIKE %s",
                         {"$"})

\* C15 witness: nameoforg = "1 2" gave one clause bound to %1 2% in both
\* builders, among the clauses of other filters
C15_Witness ==
    /\ PlainBuilt
    /\ req.nameoforg = <<"1", " ", "2">>
    /\ Truthy(req.inn)
    /\ NameoforgPart = [clauses |-> <<Atom("r.nameoforg ILIKE %s")>>,
                        params |-> << <<"%", "1", " ", "2", "%">> >>]
    /\ PlainNameoforgPart = [clauses |-> <<Atom("nameoforg ILIKE %s")>>,
                             params |-> << <<"%", "1", " ", "2", "%">> >>]

\* C15 witness: productname = "1^2" gave the one clause
\* (productname ILIKE %s OR productname ILIKE %s) bound to %1% and %2%
C15_WitnessOr ==
    /\ PlainBuilt
    /\ req.productname = <<"1", "^", "2">>
    /\ PlainProductnamePart =
           [clauses |-> <<OrGroup(<<"productname ILIKE %s", "productname ILIKE %s">>)>>,
            params |-> << <<"%", "1", "%">>, <<"%", "2", "%">> >>]


\* C16: a store statement of an attempt that is cancelled for exceeding its
\* deadline ends the request with a timeout-typed status (503 or 504), not
\* with the 500 of the other store failures and not with a success.
C16_StoreTimeoutTyped ==
    [][(/\ pc = "attempt"
        /\ pc' = "failed"
        /\ response'.error = StatementTimeout)
       => response'.status \in {503, 504}]_vars


\* C17: when the rows of a successful semantic response come from a relaxed
\* attempt (the last record of the history has rows and is not the first,
\* "original", one), semantic.fallback_used is true, whatever the lexical
\* loop did.
C17_FallbackReported ==
    Done =>
        LET history == response.semantic.fallback_attempts
            n == Len(history)
        IN  (n > 1 /\ history[n].rows > 0) => response.semantic.fallback_used


\* a predicate of GET /reestr written with the alias r. of the semantic query
WithAlias(sql) ==
    CASE sql = "(inn = %s OR tnved ILIKE %s)" -> "(r.inn = %s OR r.tnved ILIKE %s)"
      [] sql = "inn = %s" -> "r.inn = %s"
      [] sql = "tnved ILIKE %s" -> "r.tnved ILIKE %s"
      [] sql = "okpd2 ILIKE %s" -> "r.okpd2 ILIKE %s"
      [] sql = "(regnumber = %s OR registernumber = %s)"
             -> "(r.regnumber = %s OR r.registernumber = %s)"
      [] sql = "nameoforg ILIKE %s" -> "r.nameoforg ILIKE %s"
      [] OTHER -> sql

AllWithAlias(clauses) ==
    [i \in 1..Len(clauses) |->
        [group |-> clauses[i].group,
         atoms |-> [j \in 1..Len(clauses[i].atoms) |-> WithAlias(clauses[i].atoms[j])]]]

\* C18: without productname the predicates GET /reestr adds to its statement
\* are, up to the alias r., the clauses build_filter_clauses returns for the
\* same values, in the same order, and the bound parameters are the same.
C18_PlainSameAsBuilder ==
    (PlainBuilt /\ ~Truthy(req.productname)) =>
        /\ AllWithAlias(qlog[1].clauses) = used.clauses
        /\ qlog[1].params = used.params


\* a search sent by one of the three loops of the pipe over the lengths
IsRetry(search) == search.loop \in {"semantic", "code", "tnved"}

C19_WitnessPlain ==
    /\ pc = "done"
    /\ req.code = InnTen
    /\ ~req.use_semantic
    /\ Len(sent) >= 6
    /\ sent[1].api = "rest" /\ sent[1].loop = "first"
    /\ [i \in 1..5 |-> Len(sent[i + 1].tnved)] = <<10, 8, 6, 4, 4>>
    /\ sent[5].loop = "code" /\ sent[6].loop = "tnved"


CodeAsTnvedLabels ==
    {"code_as_tnved_10", "code_as_tnved_8", "code_as_tnved_6", "code_as_tnved_4"}

\* the lengths of {10, 8, 6, 4} that are not above n, in descending order
FittingCodeLengths(n) == SelectSeq(<<10, 8, 6, 4>>, LAMBDA len : len <= n)

\* C20: the planned attempts labelled code_as_tnved_N are there only when the
\* code is a single value and the query has no tnved; then they are, in this
\* order, one for each N of 10, 8, 6, 4 not above the digit count of the
\* code, with the first N digits of the code as tnved, no code, and "code" in
\* removed_filters.
C20_CodeAsTnvedOnlyWithoutTnved ==
    Planned =>
        LET planned == SelectSeq(attempts, LAMBDA a : a.label \in CodeAsTnvedLabels)
            lens == FittingCodeLengths(DigitCount(req.code))
        IN  IF Truthy(req.code) /\ ~HasChar(req.code, "|") /\ ~HasChar(req.code, ",")
               /\ ~Truthy(req.tnved)
            THEN planned =
                     [k \in 1..Len(lens) |->
                         [label |-> "code_as_tnved_" \o ToString(lens[k]),
                          tnved |-> Prefix(DigitsOf(req.code), lens[k]),
                          code |-> None,
                          removed_filters |-> <<"code">>]]
            ELSE planned = <<>>


\* C21: when a planned attempt has a tnved, the original one or one made from
\* the code, the last planned attempt has no tnved and keeps the code of the
\* query.
C21_LastAttemptWithoutTnved ==
    Planned =>
        ((\E i \in 1..Len(attempts) : Truthy(attempts[i].tnved))
            => /\ ~Truthy(attempts[Len(attempts)].tnved)
               /\ attempts[Len(attempts)].code = req.code)


\* the statement the handler is about to send is the first of its attempt
FirstOfAttempt ==
    qlog = <<>> \/ qlog[Len(qlog)].label # attempts[idx + 1].label

\* the statement of the attempt in hand, sent with the fetch size in hand,
\* finds no row
FindsNothing ==
    LET fc == AttemptClauses(attempts[idx + 1])
    IN  <<>> \in QueryResults(nrows, fc.clauses, fc.params, current_limit, req.offset)

\* one statement of an attempt: it is sent with the fetch size in hand; the
\* first of an attempt has the size max(2*limit, offset+limit), a later one
\* twice the size before it, at most 800, and the size before it was below
\* 800; the attempt goes on only after an empty result below 800, and
\* otherwise ends with a record that has the size as limit_used
FetchStep ==
    /\ qlog' = Append(qlog, [kind |-> "attempt", label |-> attempts[idx + 1].label,
                             limit |-> current_limit])
    /\ IF FirstOfAttempt
       THEN current_limit = IF 2 * req.limit >= req.offset + req.limit
                            THEN 2 * req.limit ELSE req.offset + req.limit
       ELSE /\ qlog[Len(qlog)].limit < 800
            /\ current_limit = IF 2 * qlog[Len(qlog)].limit < 800
                               THEN 2 * qlog[Len(qlog)].limit ELSE 800
    /\ IF pc' = "attempt" /\ idx' = idx
       THEN /\ FindsNothing
            /\ current_limit < 800
            /\ attempt_history' = attempt_history
       ELSE /\ Len(attempt_history') = Len(attempt_history) + 1
            /\ attempt_history'[Len(attempt_history')].limit_used = current_limit
            /\ \/ attempt_history'[Len(attempt_history')].rows > 0
               \/ current_limit >= 800

\* C22 as stated: FetchStep, and no statement is sent with a fetch size above
\* 800.
C22_NeverAboveCap ==
    [][(pc = "attempt" /\ pc' # "failed") => (FetchStep /\ current_limit <= 800)]_vars

\* C22 (amended): FetchStep, and no statement is sent with a fetch size above
\* 800 unless it is the first of its attempt, whose size
\* max(2*limit, offset+limit) is not cut; an attempt that starts at 800 or
\* above sends that one statement only.
C22_DoublingUpToCap ==
    [][(pc = "attempt" /\ pc' # "failed")
       => /\ FetchStep
          /\ current_limit > 800 =>
                 /\ FirstOfAttempt
                 /\ ~(pc' = "attempt" /\ idx' = idx)]_vars

\* C22 witness: an attempt without rows went from 4 to 800 by doubling and
\* its record has limit_used = 800
C22_Witness ==
    /\ Len(qlog) >= 9
    /\ [i \in 1..9 |-> qlog[i].limit] = <<4, 8, 16, 32, 64, 128, 256, 512, 800>>
    /\ \A i \in 1..9 : qlog[i].kind = "attempt" /\ qlog[i].label = "original"
    /\ Len(attempt_history) >= 1
    /\ attempt_history[1].limit_used = 800
    /\ attempt_history[1].rows = 0

\* C22 witness: with offset = 900 the only statement of the attempt had the
\* fetch size 902
C22_WitnessAboveCap ==
    /\ req.offset = 900
    /\ Len(attempt_history) >= 1
    /\ attempt_history[1].limit_used = 902
    /\ qlog[1].limit = 902


\* the statements of the lexical fallback sent so far
LexicalSent == SelectSeq(qlog, LAMBDA q : q.kind = "lexical")

\* the tokens of the query that have a letter, in token order
AlphabeticTokens == SelectSeq(Tokens(req.text, {}), LAMBDA tok : tok \in LetterWords)

\* the ids of a sequence of rows
Ids(rows) == {rows[i].id : i \in 1..Len(rows)}

\* C23: a statement of the lexical fallback is sent only while the pool is
\* below the fetch target max(fetch_limit, 2*limit), the first one only when
\* the pool is below limit; the k-th statement is for the k-th alphabetic
\* token; it has the clauses and parameters of the attempt that was run last
\* plus lower(r.productname) LIKE %token%, and the fetch target as its size;
\* the pool keeps its rows and gains only rows whose id was not known, each
\* once.
C23_LexicalFallback ==
    [][(pc = "lexical" /\ pc' # "failed")
       => LET k == Len(LexicalSent) + 1
              target == IF 2 * req.limit >= req.offset + req.limit
                        THEN 2 * req.limit ELSE req.offset + req.limit
              chosen == AttemptClauses(attempts[Len(attempt_history)])
              q == qlog'[Len(qlog')]
              gained == SubSeq(candidate_rows', Len(candidate_rows) + 1,
                               Len(candidate_rows'))
          IN  /\ Len(qlog') = Len(qlog) + 1
              /\ q.kind = "lexical"
              /\ k <= Len(AlphabeticTokens)
              /\ q.label = AlphabeticTokens[k]
              /\ q.limit = target
              /\ q.clauses = chosen.clauses \o <<Atom("lower(r.productname) LIKE %s")>>
              /\ q.params = chosen.params \o << <<"%", q.label, "%">> >>
              /\ Len(candidate_rows) < target
              /\ k = 1 => Len(candidate_rows) < req.limit
              /\ SubSeq(candidate_rows', 1, Len(candidate_rows)) = candidate_rows
              /\ Ids(gained) \cap Ids(rows_by_id) = {}
              /\ Cardinality(Ids(gained)) = Len(gained)]_vars

\* C23 witness: two token statements were sent, in token order, and the pool
\* gained rows the attempts had not found
C23_Witness ==
    /\ pc = "finish"
    /\ Len(LexicalSent) >= 2
    /\ LexicalSent[1].label = "gloves"
    /\ LexicalSent[2].label = "latex"
    /\ fallback_used
    /\ Len(candidate_rows) > Len(final_rows)
    /\ Len(final_rows) > 0


\* C24: the tnved, the code and the removed filters a response reports are
\* those of the attempt whose clauses were used: the attempt that returned
\* rows, and the last attempt when none did (the last one that ran in both cases).
C24_DiagnosticsOfUsedAttempt ==
    (pc = "done" /\ response.status = 200)
        => LET a == attempts[Len(attempt_history)]
           IN  /\ used = AttemptClauses(a)
               /\ response.semantic.active_filters.tnved = a.tnved
               /\ response.semantic.active_filters.code = a.code
               /\ response.semantic.fallback_removed_filters = a.removed_filters


\* C25: every statement GET /reestr sends to the store has, after WHERE 1=1,
\* at least one predicate made from the values of the call.
C25_PlainQueryFiltered ==
    \A i \in 1..Len(qlog) :
        qlog[i].kind = "select" => qlog[i].clauses # <<>>


\* C26: the rows of a response of GET /reestr/semantic have pairwise
\* different ids, also when a statement of the lexical fallback returns rows
\* the winning attempt or an earlier token had returned.
C26_RowsDistinctById ==
    (pc = "done" /\ response.status = 200)
        => \A i, j \in 1..Len(response.rows) :
               i # j => response.rows[i].id # response.rows[j].id

\* C26 witness: the lexical fallback ran for two tokens, a row of the winning
\* attempt has the first token in its name and is in the response, and a row
\* the fallback added has both tokens in its name
C26_Witness ==
    /\ pc = "done"
    /\ response.status = 200
    /\ Len(LexicalSent) >= 2
    /\ \E i \in 1..Len(final_rows) :
           /\ LexicalSent[1].label \in final_rows[i].productname
           /\ final_rows[i].id \in Ids(response.rows)
    /\ \E i \in 1..Len(response.rows) :
           /\ response.rows[i].id \notin Ids(final_rows)
           /\ LexicalSent[1].label \in response.rows[i].productname
           /\ LexicalSent[2].label \in response.rows[i].productname


\* the labels of the attempts a response reports rows for
WinningLabels(resp) ==
    {resp.semantic.fallback_attempts[i].label :
        i \in {j \in 1..Len(resp.semantic.fallback_attempts) :
                  resp.semantic.fallback_attempts[j].rows > 0}}

\* C27: a later page of a query, on the same store and with the same answer
\* of the semantic service, is answered by the attempt that answered
\* offset 0, and reports the same active filters, whenever both responses
\* have rows of an attempt.
C27_SameAttemptOnEveryPage ==
    (/\ run = 2
     /\ Done
     /\ response.status = 200
     /\ WinningLabels(response) # {}
     /\ WinningLabels(prev_response) # {})
        => /\ WinningLabels(response) = WinningLabels(prev_response)
           /\ response.semantic.active_filters = prev_response.semantic.active_filters


\* the token filter kept a row of the winning attempt
FilterPassed == filtered_count # <<>>

OpenConns == {c \in 1..Len(conns) : conns[c] = "open"}

\* C29: with requests handled at the same time the cache has one connection:
\* at most one is open at any time, and an open connection is the one
\* _CACHE_CONN refers to, or is about to be assigned to it.
C29_SingleCacheConn ==
    /\ Cardinality(OpenConns) <= 1
    /\ \A c \in OpenConns :
           \/ c = _CACHE_CONN
           \/ \E t \in Threads : threads[t].pc = "assign" /\ threads[t].conn = c


\* the message gave no value for any search parameter
NoParameter ==
    /\ req.code = None
    /\ req.tnved = None
    /\ req.inn = None
    /\ req.productname = None

\* C30: for a message without any search parameter the pipe answers with
\* the examples and sends no search; and every GET /reestr it sends has a
\* filter.
C30_HelpWithoutParameter ==
    /\ (NoParameter /\ pc # "pipe") => (pc = "help" /\ sent = <<>>)
    /\ \A i \in 1..Len(sent) :
           sent[i].api = "rest"
               => \/ sent[i].code # None
                  \/ sent[i].tnved # None
                  \/ sent[i].inn # None
                  \/ sent[i].productname # None

====
